---- MODULE Spec2Model ----
(***************************************************************************)
(* Model of the InfiniBand DRA driver: the SR-IOV VF lifecycle manager     *)
(* (package sriov), the fleet provisioning loop of the ib profile, and the *)
(* move-netdev CDI hook (kubelet plugin subcommand + package netns).       *)
(***************************************************************************)
EXTENDS Integers, Sequences, FiniteSets, TLC

(***************************************************************************)
(* Bounds and program constants                                            *)
(***************************************************************************)

\* Largest sriov_totalvfs value a modelled PF may expose.
MaxCap == 2

\* vfSettleTimeout and vfPollInterval, in milliseconds.
vfSettleTimeout == 30000
vfPollInterval == 500

\* The PCI devices of the modelled host, in sysfs listing order of their IB
\* devices (mlx5_0, mlx5_1).
IBDevNames == <<"mlx5_0", "mlx5_1">>

PCIAddressOf(name) ==
    CASE name = "mlx5_0" -> "0000:3b:00.0"
      [] name = "mlx5_1" -> "0000:5e:00.0"

PCIAddrs == {PCIAddressOf(IBDevNames[i]) : i \in 1..Len(IBDevNames)}

\* Desired counts a caller may pass: negative, zero, in range, above capacity.
DesiredValues == (0 - 1)..(MaxCap + 1)

VARIABLES
    isPF,       \* [PCI -> BOOLEAN]: the device exposes sriov_totalvfs / sriov_numvfs
    totalvfs,   \* [PCI -> Nat]: content of sriov_totalvfs
    numvfs,     \* [PCI -> Nat]: content of sriov_numvfs
    virtfn,     \* [PCI -> Nat]: number of virtfn* entries under the PF
    call,       \* [PCI -> record]: the ProvisionVFs invocation running on that PF
    numVFs,     \* Profile.numVFs
    fleet,      \* the Profile.provisionVFs invocation
    linkNs,     \* [netdev -> pid]: the network namespace each interface is in
    linkUp,     \* [netdev -> BOOLEAN]: the interface is up
    rdmaNs,     \* [IB device -> pid]: the namespace each RDMA device is in
    hook,       \* the move-netdev hook invocation
    cleanup,    \* the netns.MoveNetdevToHostNetns invocation
    ibclass,    \* /sys/class/infiniband: the topology record of each adapter
    devices,    \* Profile.devices: the snapshot of the last enumeration
    enum,       \* the Profile.EnumerateDevices invocation
    plan,       \* the Profile.ApplyConfig invocation
    portInfo,   \* the port whose effective speed is computed
    cli         \* the run of the plugin binary with a generated argument list

sysfsVars == <<isPF, totalvfs, numvfs, virtfn>>

provVars == <<isPF, totalvfs, numvfs, virtfn, call, numVFs, fleet>>

hookVars == <<linkNs, linkUp, rdmaNs, hook, cleanup>>

enumVars == <<ibclass, devices, enum>>

planVars == <<plan>>

\* What the provisioning actions, and the hook actions, leave alone.
miscVars == <<portInfo, cli>>

nonProvVars == <<hookVars, enumVars, planVars, miscVars>>

nonHookVars == <<provVars, enumVars, planVars, miscVars>>

nonEnumVars == <<provVars, hookVars, planVars, miscVars>>

nonPlanVars == <<provVars, hookVars, enumVars, miscVars>>

nonMiscVars == <<provVars, hookVars, enumVars, planVars>>

vars == <<provVars, hookVars, enumVars, planVars, miscVars>>

(***************************************************************************)
(* sysfs                                                                   *)
(***************************************************************************)

\* The kernel's sriov_numvfs store: the value must be in 0..sriov_totalvfs,
\* and a live pool can only be reset to 0 (or rewritten with its own size).
KernelAccepts(p, count) ==
    /\ isPF[p]
    /\ count >= 0
    /\ count <= totalvfs[p]
    /\ (count = 0 \/ numvfs[p] = 0 \/ count = numvfs[p])

\* Mutant: the write lands in the control file of every PCI device.
SetSRIOVNumVFs_EveryDevice(p, count, ok) ==
    IF ok
    THEN /\ numvfs' = [q \in PCIAddrs |-> count]
         /\ virtfn' = [q \in PCIAddrs |-> IF count = 0 THEN 0 ELSE virtfn[q]]
    ELSE UNCHANGED <<numvfs, virtfn>>

\* sysfs.SetSRIOVNumVFs: os.WriteFile on sriov_numvfs. ok is the outcome of the
\* write; a failed write leaves the pool as it was.
SetSRIOVNumVFs(p, count, ok) ==
    IF ok
    THEN /\ numvfs' = [numvfs EXCEPT ![p] = count]
         /\ virtfn' = [virtfn EXCEPT ![p] = IF count = 0 THEN 0 ELSE @]
    ELSE UNCHANGED <<numvfs, virtfn>>

\* The outcomes a write of count can have: rejected by the kernel, or accepted
\* unless the write itself fails (I/O error, read-only sysfs, busy VFs).
WriteOutcomes(p, count) ==
    IF KernelAccepts(p, count) THEN {TRUE, FALSE} ELSE {FALSE}

\* The kernel materialises the VFs of an enabled pool one virtfn entry at a
\* time; it may also stall, which is what waitForVFs polls for.
KernelCreateVF(p) ==
    /\ isPF[p]
    /\ virtfn[p] < numvfs[p]
    /\ virtfn' = [virtfn EXCEPT ![p] = @ + 1]
    /\ UNCHANGED <<isPF, totalvfs, numvfs, call, numVFs, fleet, nonProvVars>>

\* sriov.DestroyVFs(p): one write of 0 to sriov_numvfs, whose error is returned
\* and not retried. The PF has a single writer at a time: no ProvisionVFs call
\* on p is running or about to return.
DestroyVFs(p) ==
    /\ call[p].pc = "idle"
    /\ \E ok \in WriteOutcomes(p, 0) : SetSRIOVNumVFs(p, 0, ok)
    /\ UNCHANGED <<isPF, totalvfs, call, numVFs, fleet, nonProvVars>>

(***************************************************************************)
(* sriov.ProvisionVFs                                                      *)
(***************************************************************************)

IdleCall ==
    [pc |-> "idle", desired |-> 0, totalVFs |-> 0, currentVFs |-> 0,
     entry |-> 0, elapsed |-> 0, seen |-> 0, log |-> <<>>, err |-> "none",
     ctxDone |-> FALSE, caller |-> "none", round |-> 0, first |-> "none"]

\* A control-file event of one invocation: kind is "reset" (line 100),
\* "pause" (line 104) or "set" (line 108); before is the count at the write.
LogEntry(kind, value, before, ok) ==
    [kind |-> kind, value |-> value, before |-> before, ok |-> ok]

Writes(log) == {i \in DOMAIN log : log[i].kind # "pause"}

\* Mutant: the capacity check is dropped.
ExceedsMax_Never(desired, total) == FALSE

\* desired > totalVFs
ExceedsMax(desired, total) == desired > total

\* currentVFs == desired
AlreadyAtDesired(current, desired) == current = desired

\* Mutant: the desired count is written without the reset.
NeedsReset_Never(current) == FALSE

\* currentVFs > 0
NeedsReset(current) == current > 0

\* Mutant: the poll returns on any readable listing, whatever it holds.
VFsAppeared_AnyCount(listOk, n, expected) == listOk

\* err == nil && len(vfs) >= expected
VFsAppeared(listOk, n, expected) == listOk /\ n >= expected

Finish(p, e) == [call EXCEPT ![p].pc = "done", ![p].err = e]

\* Entry of ProvisionVFs(ctx, p, desired).
BeginCall(p, desired, caller, round, first) ==
    [IdleCall EXCEPT !.pc = "getTotal", !.desired = desired,
                     !.entry = numvfs[p], !.caller = caller,
                     !.round = round, !.first = first]

\* Lines 78-85: read sriov_totalvfs, reject a request above it. The read
\* fails on a device without the file, and may fail (I/O error, unparsable
\* content) on a PF.
PV_GetTotal(p) ==
    /\ call[p].pc = "getTotal"
    /\ \E ok \in (IF isPF[p] THEN BOOLEAN ELSE {FALSE}) :
         IF ~ok
         THEN call' = Finish(p, "errGetTotal")
         ELSE IF ExceedsMax(call[p].desired, totalvfs[p])
              THEN call' = [call EXCEPT ![p].pc = "done", ![p].err = "errExceeds",
                                        ![p].totalVFs = totalvfs[p]]
              ELSE call' = [call EXCEPT ![p].pc = "getNum",
                                        ![p].totalVFs = totalvfs[p]]
    /\ UNCHANGED <<sysfsVars, numVFs, fleet, nonProvVars>>

\* Lines 87-98: read sriov_numvfs, return when it is the desired count. The
\* read fails on a device without the file, and may fail on a PF.
PV_GetNum(p) ==
    /\ call[p].pc = "getNum"
    /\ \E ok \in (IF isPF[p] THEN BOOLEAN ELSE {FALSE}) :
         IF ~ok
         THEN call' = Finish(p, "errGetNum")
         ELSE IF AlreadyAtDesired(numvfs[p], call[p].desired)
              THEN call' = [call EXCEPT ![p].pc = "done", ![p].err = "nil",
                                        ![p].currentVFs = numvfs[p]]
              ELSE call' = [call EXCEPT
                              ![p].pc = IF NeedsReset(numvfs[p]) THEN "reset" ELSE "set",
                              ![p].currentVFs = numvfs[p]]
    /\ UNCHANGED <<sysfsVars, numVFs, fleet, nonProvVars>>

\* Lines 100-102: reset the pool to 0.
PV_Reset(p) ==
    /\ call[p].pc = "reset"
    /\ \E ok \in WriteOutcomes(p, 0) :
         /\ SetSRIOVNumVFs(p, 0, ok)
         /\ call' = [call EXCEPT
                       ![p].log = Append(@, LogEntry("reset", 0, numvfs[p], ok)),
                       ![p].pc = IF ok THEN "pause" ELSE "done",
                       ![p].err = IF ok THEN @ ELSE "errReset"]
    /\ UNCHANGED <<isPF, totalvfs, numVFs, fleet, nonProvVars>>

\* Line 104: the pause after destroying the VFs.
PV_Pause(p) ==
    /\ call[p].pc = "pause"
    /\ call' = [call EXCEPT ![p].log = Append(@, LogEntry("pause", 0, numvfs[p], TRUE)),
                            ![p].pc = "set"]
    /\ UNCHANGED <<sysfsVars, numVFs, fleet, nonProvVars>>

\* Mutant: a failed write of the desired count is ignored, the call goes on
\* to wait for the VFs.
PV_Set_IgnoresFailure(p) ==
    /\ call[p].pc = "set"
    /\ \E ok \in WriteOutcomes(p, call[p].desired) :
         /\ SetSRIOVNumVFs(p, call[p].desired, ok)
         /\ call' = [call EXCEPT
                       ![p].log = Append(@, LogEntry("set", call[p].desired, numvfs[p], ok)),
                       ![p].pc = "wait",
                       ![p].elapsed = 0]
    /\ UNCHANGED <<isPF, totalvfs, numVFs, fleet, nonProvVars>>

\* Lines 107-110: write the desired count.
PV_Set(p) ==
    /\ call[p].pc = "set"
    /\ \E ok \in WriteOutcomes(p, call[p].desired) :
         /\ SetSRIOVNumVFs(p, call[p].desired, ok)
         /\ call' = [call EXCEPT
                       ![p].log = Append(@, LogEntry("set", call[p].desired, numvfs[p], ok)),
                       ![p].pc = IF ok THEN "wait" ELSE "done",
                       ![p].err = IF ok THEN @ ELSE "errSet",
                       ![p].elapsed = 0]
    /\ UNCHANGED <<isPF, totalvfs, numVFs, fleet, nonProvVars>>

\* waitForVFs, one iteration of its loop: the deadline test, ListVFs, and
\* either the return or the sleep of vfPollInterval. listOk is the outcome of
\* reading the PF's directory.
PV_Wait(p) ==
    /\ call[p].pc = "wait"
    /\ IF call[p].elapsed < vfSettleTimeout
       THEN \E listOk \in BOOLEAN :
              IF VFsAppeared(listOk, virtfn[p], call[p].desired)
              THEN call' = [call EXCEPT ![p].pc = "done", ![p].err = "nil",
                                        ![p].seen = virtfn[p]]
              ELSE call' = [call EXCEPT ![p].elapsed = @ + vfPollInterval]
       ELSE call' = Finish(p, "errTimeout")
    /\ UNCHANGED <<sysfsVars, numVFs, fleet, nonProvVars>>

ProvisionVFsStep(p) ==
    \/ PV_GetTotal(p)
    \/ PV_GetNum(p)
    \/ PV_Reset(p)
    \/ PV_Pause(p)
    \/ PV_Set(p)
    \/ PV_Wait(p)

\* The caller's context is cancelled (process shutdown) while the call runs.
CancelContext(p) ==
    /\ call[p].pc \notin {"idle", "done"}
    /\ ~call[p].ctxDone
    /\ call' = [call EXCEPT ![p].ctxDone = TRUE]
    /\ UNCHANGED <<sysfsVars, numVFs, fleet, nonProvVars>>

NoCallActive == \A q \in PCIAddrs : call[q].pc = "idle"

(***************************************************************************)
(* Direct callers of ProvisionVFs                                          *)
(***************************************************************************)

\* A caller invokes ProvisionVFs(ctx, p, desired) on one PF.
DirectCall(p, desired) ==
    /\ NoCallActive
    /\ fleet.pc = "idle"
    /\ call' = [call EXCEPT ![p] = BeginCall(p, desired, "direct", 1, "none")]
    /\ UNCHANGED <<sysfsVars, numVFs, fleet, nonProvVars>>

\* The caller invokes it again, right after the first call returned, with the
\* same PF and the same desired count.
DirectCallAgain(p) ==
    /\ call[p].pc = "done"
    /\ call[p].caller = "direct"
    /\ call[p].round = 1
    /\ call' = [call EXCEPT ![p] = BeginCall(p, call[p].desired, "direct", 2,
                                             call[p].err)]
    /\ UNCHANGED <<sysfsVars, numVFs, fleet, nonProvVars>>

\* The call's result is consumed by a direct caller.
DirectReturn(p) ==
    /\ call[p].pc = "done"
    /\ call[p].caller = "direct"
    /\ call' = [call EXCEPT ![p] = IdleCall]
    /\ UNCHANGED <<sysfsVars, numVFs, fleet, nonProvVars>>

(***************************************************************************)
(* Parallel callers of ProvisionVFs, one per PF                            *)
(***************************************************************************)

\* A caller invokes ProvisionVFs(ctx, p, desired) while a call on another PF
\* may be running; a PF has a single caller at a time.
ParallelCall(p, desired) ==
    /\ call[p].pc = "idle"
    /\ fleet.pc = "idle"
    /\ call' = [call EXCEPT ![p] = BeginCall(p, desired, "parallel", 1, "none")]
    /\ UNCHANGED <<sysfsVars, numVFs, fleet, nonProvVars>>

\* The call's result is consumed by its caller.
ParallelReturn(p) ==
    /\ call[p].pc = "done"
    /\ call[p].caller = "parallel"
    /\ call' = [call EXCEPT ![p] = IdleCall]
    /\ UNCHANGED <<sysfsVars, numVFs, fleet, nonProvVars>>

(***************************************************************************)
(* Initial states                                                          *)
(***************************************************************************)

IdleFleet ==
    [pc |-> "idle", pfs |-> <<>>, i |-> 0, results |-> <<>>, writes |-> 0,
     err |-> "none"]

InitSysfs ==
    /\ isPF \in [PCIAddrs -> BOOLEAN]
    /\ totalvfs \in [PCIAddrs -> 0..MaxCap]
    /\ numvfs \in [PCIAddrs -> 0..MaxCap]
    /\ \A p \in PCIAddrs :
         /\ numvfs[p] <= totalvfs[p]
         /\ ~isPF[p] => totalvfs[p] = 0
    /\ virtfn = numvfs


(***************************************************************************)
(* Profile.provisionVFs: fleet provisioning over the discovered PFs        *)
(***************************************************************************)

\* sysfs.GetIBDeviceInfo, the fields DiscoverSRIOVPFs reads: sriov_totalvfs
\* and sriov_numvfs are read for a PF only, with readIntFile, which gives 0
\* when the read fails. totalOk and numOk are the outcomes of the two reads.
IBDeviceInfo(name, totalOk, numOk) ==
    LET p == PCIAddressOf(name) IN
    [Name |-> name, PCIAddress |-> p, IsPF |-> isPF[p],
     SRIOVTotalVFs |-> IF isPF[p] /\ totalOk THEN totalvfs[p] ELSE 0,
     SRIOVNumVFs |-> IF isPF[p] /\ numOk THEN numvfs[p] ELSE 0]

\* Mutant: discovery keeps every IB device.
Eligible_Any(dev) == TRUE

\* The negation of the skip test !dev.IsPF || dev.SRIOVTotalVFs == 0.
Eligible(dev) == ~(~dev.IsPF \/ dev.SRIOVTotalVFs = 0)

PFInfo(dev) ==
    [PCIAddress |-> dev.PCIAddress, IBDevName |-> dev.Name,
     TotalVFs |-> dev.SRIOVTotalVFs, CurrentVFs |-> dev.SRIOVNumVFs]

\* sriov.DiscoverSRIOVPFs: the eligible PFs, in listing order. reads gives,
\* per listed device, the outcomes of its two SR-IOV reads.
RECURSIVE DiscoverFrom(_, _)
DiscoverFrom(k, reads) ==
    IF k > Len(IBDevNames) THEN <<>>
    ELSE LET dev == IBDeviceInfo(IBDevNames[k], reads[k].totalOk, reads[k].numOk) IN
         (IF Eligible(dev) THEN <<PFInfo(dev)>> ELSE <<>>)
         \o DiscoverFrom(k + 1, reads)

DiscoverSRIOVPFs(reads) == DiscoverFrom(1, reads)

\* Mutant: the requested count is passed on unclamped.
ClampDesired_None(requested, total) == requested

\* desired := p.numVFs; if desired > pf.TotalVFs { desired = pf.TotalVFs }
ClampDesired(requested, total) == IF requested > total THEN total ELSE requested

\* EnumerateDevices, step 1: provisionVFs runs only when numVFs > 0.
EnumerateDevicesProvision ==
    /\ fleet.pc = "idle"
    /\ enum.pc = "idle"
    /\ NoCallActive
    /\ numVFs > 0
    /\ fleet' = [IdleFleet EXCEPT !.pc = "discover"]
    /\ enum' = [enum EXCEPT !.pc = "provision"]
    /\ UNCHANGED <<sysfsVars, call, numVFs, ibclass, devices, hookVars, planVars, miscVars>>

\* provisionVFs, lines 242-250. listOk is the outcome of reading
\* /sys/class/infiniband.
FleetDiscover ==
    /\ fleet.pc = "discover"
    /\ \E listOk \in BOOLEAN,
          reads \in [1..Len(IBDevNames) -> [totalOk : BOOLEAN, numOk : BOOLEAN]] :
         IF ~listOk
         THEN fleet' = [fleet EXCEPT !.pc = "done", !.err = "errDiscover"]
         ELSE LET pfs == DiscoverSRIOVPFs(reads) IN
              IF Len(pfs) = 0
              THEN fleet' = [fleet EXCEPT !.pc = "done", !.err = "nil"]
              ELSE fleet' = [fleet EXCEPT !.pc = "loop", !.pfs = pfs, !.i = 1]
    /\ UNCHANGED <<sysfsVars, call, numVFs, nonProvVars>>

\* provisionVFs, lines 252-258: the loop body up to the ProvisionVFs call.
FleetCall ==
    /\ fleet.pc = "loop"
    /\ LET pf == fleet.pfs[fleet.i]
           desired == ClampDesired(numVFs, pf.TotalVFs) IN
       call' = [call EXCEPT ![pf.PCIAddress] =
                    BeginCall(pf.PCIAddress, desired, "fleet", 1, "none")]
    /\ fleet' = [fleet EXCEPT !.pc = "calling"]
    /\ UNCHANGED <<sysfsVars, numVFs, nonProvVars>>

\* provisionVFs, lines 258-262: the call returned; an error ends the loop.
FleetReturn ==
    /\ fleet.pc = "calling"
    /\ LET p == fleet.pfs[fleet.i].PCIAddress IN
       /\ call[p].pc = "done"
       /\ call[p].caller = "fleet"
       /\ call' = [call EXCEPT ![p] = IdleCall]
       /\ LET f == [fleet EXCEPT !.results = Append(@, call[p].err),
                                 !.writes = @ + Cardinality(Writes(call[p].log))] IN
          IF call[p].err # "nil"
          THEN fleet' = [f EXCEPT !.pc = "done", !.err = "errProvision"]
          ELSE IF fleet.i < Len(fleet.pfs)
               THEN fleet' = [f EXCEPT !.pc = "loop", !.i = @ + 1]
               ELSE fleet' = [f EXCEPT !.pc = "done", !.err = "nil"]
    /\ UNCHANGED <<sysfsVars, numVFs, nonProvVars>>

\* EnumerateDevices, lines 102-105: the result is logged and enumeration goes
\* on with step 2.
FleetFinish ==
    /\ fleet.pc = "done"
    /\ enum.pc = "provision"
    /\ fleet' = IdleFleet
    /\ enum' = [enum EXCEPT !.pc = "list"]
    /\ UNCHANGED <<sysfsVars, call, numVFs, ibclass, devices, hookVars, planVars, miscVars>>

(***************************************************************************)
(* The move-netdev hook: moveNetdevCommand, ib.MoveNetdevHookHelper, netns *)
(***************************************************************************)

\* The network namespace of PID 1, the host's.
HostNs == 1

\* Container processes that exist on the host.
LivePids == {100, 200}

\* Process ids a hook payload may carry: 0, a live container, a dead process.
PidValues == {0, 999} \cup LivePids

\* The --ib-dev arguments: two adapters of the host and one that is not there.
HookIBDevs == {"mlx5_0", "mlx5_1", "mlx5_9"}

\* The network interfaces of each adapter, in directory order.
AllNetDevices(ibDev) ==
    CASE ibDev = "mlx5_0" -> <<"ib0">>
      [] ibDev = "mlx5_1" -> <<"ib1", "ib2">>
      [] OTHER -> <<>>

NetDevs == {"ib0", "ib1", "ib2"}

RdmaDevs == {"mlx5_0", "mlx5_1"}

\* The OCI state on the hook's stdin: not JSON at all, JSON without a pid
\* field, or JSON with one.
Payloads ==
    {[decodable |-> FALSE, hasPid |-> FALSE, pid |-> 0],
     [decodable |-> TRUE, hasPid |-> FALSE, pid |-> 0]}
    \cup {[decodable |-> TRUE, hasPid |-> TRUE, pid |-> n] : n \in PidValues}

\* json.Decode into ociState: a missing pid field leaves Pid at its zero value.
DecodedPid(payload) == IF payload.hasPid THEN payload.pid ELSE 0

\* Mutant: the pid check is dropped.
PidRejected_Never(pid) == FALSE

\* state.Pid == 0
PidRejected(pid) == pid = 0

IdleHook ==
    [pc |-> "idle", ibDev |-> "", payload |-> [decodable |-> FALSE, hasPid |-> FALSE, pid |-> 0],
     pid |-> 0, netDevs |-> <<>>, k |-> 0, ops |-> <<>>, err |-> "none"]

\* One namespace operation of an invocation: op is "move", "up" or "rdma".
HookOp(op, dev, ok) == [op |-> op, dev |-> dev, ok |-> ok]

\* sysfs.findNetDevices: the entries of the adapter's device/net directory,
\* which shows the interfaces that are in the reader's (the host's) namespace.
findNetDevices(ibDev) ==
    SelectSeq(AllNetDevices(ibDev), LAMBDA d : linkNs[d] = HostNs)

\* sysfs.GetIBDeviceInfo: every read in it is best-effort, it returns no error.
GetIBDeviceInfo(ibDev) == [err |-> FALSE, NetDevices |-> findNetDevices(ibDev)]

\* The outcomes of "ip link set <netdev> netns <pid>", run in the host
\* namespace: it can succeed only on an interface that is there and for a
\* live process.
MoveOutcomes(dev, pid) ==
    IF linkNs[dev] = HostNs /\ pid \in LivePids THEN {TRUE, FALSE} ELSE {FALSE}

\* The outcomes of "nsenter -t <pid> -n -- ip link set <netdev> up".
UpOutcomes(dev, pid) ==
    IF linkNs[dev] = pid /\ pid \in LivePids THEN {TRUE, FALSE} ELSE {FALSE}

\* The outcomes of "rdma dev set <rdmaDev> netns <pid>".
RdmaOutcomes(dev, pid) ==
    IF dev \in RdmaDevs /\ pid \in LivePids /\ rdmaNs[dev] = HostNs
    THEN {TRUE, FALSE} ELSE {FALSE}

\* Mutant: a failed RDMA move fails the hook.
RdmaMoveResult_Fatal(ok) == IF ok THEN "nil" ELSE "errRdma"

\* MoveNetdevHookHelper, lines 408-413: the result after the RDMA move.
RdmaMoveResult(ok) == "nil"

\* The container runtime runs the hook binary: move-netdev --ib-dev <ibDev>,
\* with the payload on stdin.
HookInvoke(ibDev, payload) ==
    /\ hook.pc = "idle"
    /\ cleanup.pc = "idle"
    /\ hook' = [IdleHook EXCEPT !.pc = "decode", !.ibDev = ibDev, !.payload = payload]
    /\ UNCHANGED <<linkNs, linkUp, rdmaNs, cleanup, nonHookVars>>

\* moveNetdevCommand's Action, lines 225-231: decode stdin, reject pid 0.
HookDecode ==
    /\ hook.pc = "decode"
    /\ IF ~hook.payload.decodable
       THEN hook' = [hook EXCEPT !.pc = "done", !.err = "errDecode"]
       ELSE LET pid == DecodedPid(hook.payload) IN
            IF PidRejected(pid)
            THEN hook' = [hook EXCEPT !.pc = "done", !.err = "errPidZero", !.pid = pid]
            ELSE hook' = [hook EXCEPT !.pc = "resolve", !.pid = pid]
    /\ UNCHANGED <<linkNs, linkUp, rdmaNs, cleanup, nonHookVars>>

\* MoveNetdevHookHelper, lines 396-401: resolve the adapter's interfaces.
HookResolve ==
    /\ hook.pc = "resolve"
    /\ LET devInfo == GetIBDeviceInfo(hook.ibDev) IN
       IF devInfo.err
       THEN hook' = [hook EXCEPT !.pc = "done", !.err = "errSysfs"]
       ELSE hook' = [hook EXCEPT !.netDevs = devInfo.NetDevices, !.k = 1,
                                 !.pc = IF Len(devInfo.NetDevices) = 0
                                        THEN "rdma" ELSE "move"]
    /\ UNCHANGED <<linkNs, linkUp, rdmaNs, cleanup, nonHookVars>>

\* Mutant: a failed move does not end the invocation.
HookMove_Continues ==
    /\ hook.pc = "move"
    /\ LET dev == hook.netDevs[hook.k] IN
       \E ok \in MoveOutcomes(dev, hook.pid) :
         /\ hook' = [hook EXCEPT !.ops = Append(@, HookOp("move", dev, ok)),
                                 !.pc = "up"]
         /\ IF ok
            THEN /\ linkNs' = [linkNs EXCEPT ![dev] = hook.pid]
                 /\ linkUp' = [linkUp EXCEPT ![dev] = FALSE]
            ELSE UNCHANGED <<linkNs, linkUp>>
    /\ UNCHANGED <<rdmaNs, cleanup, nonHookVars>>

\* MoveNetdevToContainerNetns, lines 40-44: move the interface.
HookMove ==
    /\ hook.pc = "move"
    /\ LET dev == hook.netDevs[hook.k] IN
       \E ok \in MoveOutcomes(dev, hook.pid) :
         /\ hook' = [hook EXCEPT !.ops = Append(@, HookOp("move", dev, ok)),
                                 !.pc = IF ok THEN "up" ELSE "done",
                                 !.err = IF ok THEN @ ELSE "errMove"]
         /\ IF ok
            THEN /\ linkNs' = [linkNs EXCEPT ![dev] = hook.pid]
                 /\ linkUp' = [linkUp EXCEPT ![dev] = FALSE]
            ELSE UNCHANGED <<linkNs, linkUp>>
    /\ UNCHANGED <<rdmaNs, cleanup, nonHookVars>>

\* MoveNetdevToContainerNetns, lines 47-54: bring the interface up inside the
\* container's namespace; then the helper's loop goes on.
HookUp ==
    /\ hook.pc = "up"
    /\ LET dev == hook.netDevs[hook.k] IN
       \E ok \in UpOutcomes(dev, hook.pid) :
         /\ hook' = [hook EXCEPT
                       !.ops = Append(@, HookOp("up", dev, ok)),
                       !.pc = IF ~ok THEN "done"
                              ELSE IF hook.k < Len(hook.netDevs) THEN "move" ELSE "rdma",
                       !.k = IF ok THEN @ + 1 ELSE @,
                       !.err = IF ok THEN @ ELSE "errUp"]
         /\ linkUp' = [linkUp EXCEPT ![dev] = IF ok THEN TRUE ELSE @]
    /\ UNCHANGED <<linkNs, rdmaNs, cleanup, nonHookVars>>

\* MoveNetdevHookHelper, lines 407-413: the RDMA device move.
HookRdma ==
    /\ hook.pc = "rdma"
    /\ \E ok \in RdmaOutcomes(hook.ibDev, hook.pid) :
         /\ hook' = [hook EXCEPT !.ops = Append(@, HookOp("rdma", hook.ibDev, ok)),
                                 !.pc = "done", !.err = RdmaMoveResult(ok)]
         /\ IF ok
            THEN rdmaNs' = [rdmaNs EXCEPT ![hook.ibDev] = hook.pid]
            ELSE UNCHANGED rdmaNs
    /\ UNCHANGED <<linkNs, linkUp, cleanup, nonHookVars>>

\* The hook process exits with its result.
HookExit ==
    /\ hook.pc = "done"
    /\ hook' = IdleHook
    /\ UNCHANGED <<linkNs, linkUp, rdmaNs, cleanup, nonHookVars>>

\* The outcomes of "nsenter -t <pid> -n -- ip link set <netdev> netns 1": ip
\* runs inside the container's namespace and finds the interface only there.
HostMoveOutcomes(dev, pid) ==
    IF pid \in LivePids /\ linkNs[dev] = pid THEN {TRUE, FALSE} ELSE {FALSE}

IdleCleanup == [pc |-> "idle", netdev |-> "", pid |-> 0, before |-> 0, err |-> "none"]

\* netns.MoveNetdevToHostNetns(ctx, netdev, containerPID), on device release.
MoveNetdevToHostNetns(netdev, pid) ==
    /\ hook.pc = "idle"
    /\ cleanup.pc = "idle"
    /\ \E ok \in HostMoveOutcomes(netdev, pid) :
         /\ cleanup' = [pc |-> "done", netdev |-> netdev, pid |-> pid,
                        before |-> linkNs[netdev],
                        err |-> IF ok THEN "nil" ELSE "errHostMove"]
         /\ IF ok
            THEN /\ linkNs' = [linkNs EXCEPT ![netdev] = HostNs]
                 /\ linkUp' = [linkUp EXCEPT ![netdev] = FALSE]
            ELSE UNCHANGED <<linkNs, linkUp>>
    /\ UNCHANGED <<rdmaNs, hook, nonHookVars>>

\* The cleanup's result is consumed by its caller.
CleanupReturn ==
    /\ cleanup.pc = "done"
    /\ cleanup' = IdleCleanup
    /\ UNCHANGED <<linkNs, linkUp, rdmaNs, hook, nonHookVars>>

(***************************************************************************)
(* Strings: a Go string is modelled as the sequence of its characters, so  *)
(* that formatting (fmt.Sprintf) and parsing (strings.SplitN) are computed *)
(***************************************************************************)
Str_mlx5_0 == <<"m", "l", "x", "5", "_", "0">>

Str_mlx5_1 == <<"m", "l", "x", "5", "_", "1">>

Str_ib0 == <<"i", "b", "0">>

Str_port == <<"-", "p", "o", "r", "t">>

Str_IB_DEVICE == <<"I", "B", "_", "D", "E", "V", "I", "C", "E", "_">>

Str_IBDEV == <<"_", "I", "B", "D", "E", "V", "=">>

Str_PORT == <<"_", "P", "O", "R", "T", "=">>

Str_PKEY == <<"_", "P", "K", "E", "Y", "=", "0", "x">>

Str_TRAFFIC_CLASS == <<"_", "T", "R", "A", "F", "F", "I", "C", "_", "C", "L", "A", "S", "S", "=">>

Str_MTU == <<"_", "M", "T", "U", "=">>

DecDigits == <<"0", "1", "2", "3", "4", "5", "6", "7", "8", "9">>

HexDigits == <<"0", "1", "2", "3", "4", "5", "6", "7", "8", "9", "A", "B", "C", "D", "E", "F">>

\* fmt verb %d.
RECURSIVE SprintfD(_)
SprintfD(n) ==
    IF n < 0 THEN <<"-">> \o SprintfD(0 - n)
    ELSE IF n < Len(DecDigits) THEN <<DecDigits[n + 1]>>
    ELSE SprintfD(n \div Len(DecDigits)) \o <<DecDigits[(n % Len(DecDigits)) + 1]>>

\* fmt verb %X.
RECURSIVE SprintfX(_)
SprintfX(n) ==
    IF n < Len(HexDigits) THEN <<HexDigits[n + 1]>>
    ELSE SprintfX(n \div Len(HexDigits)) \o <<HexDigits[(n % Len(HexDigits)) + 1]>>

RECURSIVE ZeroPad(_, _)
ZeroPad(s, width) == IF Len(s) >= width THEN s ELSE ZeroPad(<<"0">> \o s, width)

\* Mutant: %X without the zero padding to four digits.
Sprintf04X_NoPad(n) == SprintfX(n)

\* fmt verb %04X.
Sprintf04X(n) == ZeroPad(SprintfX(n), 4)

\* strings.Index: the position of the first occurrence of sep in s, 0 if none.
IndexOf(s, sep) ==
    LET hits == {i \in 1..Len(s) : /\ i + Len(sep) - 1 <= Len(s)
                                   /\ SubSeq(s, i, i + Len(sep) - 1) = sep}
    IN  IF hits = {} THEN 0 ELSE CHOOSE i \in hits : \A j \in hits : i <= j

\* Mutant: no device name is split.
SplitN2_Never(s, sep) == <<s>>

\* strings.SplitN(s, sep, 2): at most two parts, cut at the first separator.
SplitN2(s, sep) ==
    LET i == IndexOf(s, sep)
    IN  IF i = 0 THEN <<s>>
        ELSE <<SubSeq(s, 1, i - 1), SubSeq(s, i + Len(sep), Len(s))>>

(***************************************************************************)
(* Profile.ApplyConfig, applyIbConfig: the isolation planner               *)
(***************************************************************************)
\* An optional scalar field (a nil or non-nil pointer).
Unset == [set |-> FALSE, v |-> 0]

Opt(values) == {Unset} \cup {[set |-> TRUE, v |-> x] : x \in values}

PkeyValues == {0, 1, 32769, 65535}

TrafficClassValues == {0, 255}

MTUValues == {0, 256, 512, 1024, 2048, 4096, 9000}

\* The runtime objects handed to ApplyConfig: nil, an IbConfig, or an object
\* of another type.
DefaultIbConfig == [kind |-> "IbConfig", Pkey |-> Unset, TrafficClass |-> Unset, MTU |-> Unset]

NilConfig == [kind |-> "nil", Pkey |-> Unset, TrafficClass |-> Unset, MTU |-> Unset]

OtherConfig == [kind |-> "other", Pkey |-> Unset, TrafficClass |-> Unset, MTU |-> Unset]

ConfigObjects ==
    {NilConfig, OtherConfig} \cup
    [kind : {"IbConfig"}, Pkey : Opt(PkeyValues),
     TrafficClass : Opt(TrafficClassValues), MTU : Opt(MTUValues)]

\* Mutant: every MTU of at least 256 bytes is taken for valid.
IbMTUValidate_AtLeast256(m) == m >= 256

\* IbMTU.Validate.
IbMTUValidate(m) == m \in {256, 512, 1024, 2048, 4096}

\* IbConfig.Validate: the partition key, when set, is not 0; the MTU, when
\* set, is one of the enumerated values.
IbConfigValidate(c) ==
    /\ c.Pkey.set => c.Pkey.v # 0
    /\ c.MTU.set => IbMTUValidate(c.MTU.v)

\* The device names of the allocation results: two published names, a name
\* without the port separator, and a name holding the separator twice.
PlanDeviceNames ==
    { Str_mlx5_0 \o Str_port \o <<"1">>,
      Str_mlx5_1 \o Str_port \o <<"2">>,
      Str_ib0,
      Str_mlx5_0 \o Str_port \o <<"1">> \o Str_port \o <<"2">> }

MaxResults == 2

\* The allocation results of one claim name pairwise distinct devices.
ResultLists ==
    {r \in UNION {[1..n -> PlanDeviceNames] : n \in 0..MaxResults} :
        \A a, b \in DOMAIN r : a # b => r[a] # r[b]}

hookPath == "/usr/bin/dra-example-kubeletplugin"

\* The environment of the device at position i (0-based) of the results.
DeviceEnvs(config, i, device) ==
    LET parts == SplitN2(device, Str_port)
        idx == Str_IB_DEVICE \o SprintfD(i)
    IN  <<idx \o <<"=">> \o device>>
        \o (IF Len(parts) = 2
            THEN <<idx \o Str_IBDEV \o parts[1], idx \o Str_PORT \o parts[2]>>
            ELSE <<>>)
        \o (IF config.Pkey.set
            THEN <<idx \o Str_PKEY \o Sprintf04X(config.Pkey.v)>> ELSE <<>>)
        \o (IF config.TrafficClass.set
            THEN <<idx \o Str_TRAFFIC_CLASS \o SprintfD(config.TrafficClass.v)>> ELSE <<>>)
        \o (IF config.MTU.set
            THEN <<idx \o Str_MTU \o SprintfD(config.MTU.v)>> ELSE <<>>)

\* The hooks of a device: one createRuntime hook when the name was split.
DeviceHooks(device) ==
    LET parts == SplitN2(device, Str_port)
    IN  IF Len(parts) = 2
        THEN <<[HookName |-> "createRuntime", Path |-> hookPath,
                Args |-> <<hookPath, "move-netdev", "--ib-dev", parts[1]>>]>>
        ELSE <<>>

NoEdits == [d \in {} |-> [Env |-> <<>>, Hooks |-> <<>>]]

IdlePlan == [pc |-> "idle", config |-> NilConfig, results |-> <<>>, i |-> 0,
             perDeviceEdits |-> NoEdits, edits |-> NoEdits, err |-> "none"]

\* ApplyConfig: a nil object is the default configuration; an object that is
\* not an IbConfig is refused.
ApplyConfig(config, results) ==
    /\ plan.pc = "idle"
    /\ IF config.kind = "other"
       THEN plan' = [IdlePlan EXCEPT !.pc = "returned", !.config = config,
                                     !.results = results,
                                     !.err = "errNotRecognized"]
       ELSE plan' = [IdlePlan EXCEPT !.pc = "validate",
                                     !.config = IF config.kind = "nil"
                                                THEN DefaultIbConfig ELSE config,
                                     !.results = results]
    /\ UNCHANGED <<nonPlanVars>>

\* Mutant: a configuration that fails validation is planned all the same.
PlanValidate_Skips ==
    /\ plan.pc = "validate"
    /\ plan' = [plan EXCEPT !.pc = "loop"]
    /\ UNCHANGED <<nonPlanVars>>

\* applyIbConfig: Normalize, then Validate, before the loop over the results.
PlanValidate ==
    /\ plan.pc = "validate"
    /\ IF IbConfigValidate(plan.config)
       THEN plan' = [plan EXCEPT !.pc = "loop"]
       ELSE plan' = [plan EXCEPT !.pc = "returned", !.err = "errValidate"]
    /\ UNCHANGED <<nonPlanVars>>

\* applyIbConfig: one iteration of the loop over the results.
PlanDevice ==
    /\ plan.pc = "loop"
    /\ plan.i < Len(plan.results)
    /\ LET device == plan.results[plan.i + 1]
           e == [Env |-> DeviceEnvs(plan.config, plan.i, device),
                 Hooks |-> DeviceHooks(device)]
       IN  plan' = [plan EXCEPT
                      !.perDeviceEdits =
                          [d \in DOMAIN plan.perDeviceEdits \cup {device} |->
                              IF d = device THEN e ELSE plan.perDeviceEdits[d]],
                      !.i = plan.i + 1]
    /\ UNCHANGED <<nonPlanVars>>

\* applyIbConfig: the loop is over, the edits are returned.
PlanFinish ==
    /\ plan.pc = "loop"
    /\ plan.i = Len(plan.results)
    /\ plan' = [plan EXCEPT !.pc = "returned", !.edits = plan.perDeviceEdits,
                            !.err = "nil"]
    /\ UNCHANGED <<nonPlanVars>>

\* The caller takes the result.
PlanReturn ==
    /\ plan.pc = "returned"
    /\ plan' = IdlePlan
    /\ UNCHANGED <<nonPlanVars>>

InitPlanIdle == plan = IdlePlan

(***************************************************************************)
(* Profile.EnumerateDevices: hardware query, topology fusion, publication  *)
(***************************************************************************)
\* The adapters of the host, in the order ibv_get_device_list reports them.
Adapters == <<Str_mlx5_0, Str_mlx5_1>>

AdapterSet == {Adapters[i] : i \in DOMAIN Adapters}

\* Bound: the number of physical ports of the larger adapter.
MaxPorts == 2

\* phys_port_cnt: mlx5_0 is a single-port adapter, mlx5_1 has MaxPorts ports.
NumPorts(name) == IF name = Str_mlx5_0 THEN 1 ELSE MaxPorts

\* The NUMA node of a device whose affinity is unknown.
UnknownNUMA == 0 - 1

nodeName == "node-1"

AdapterPCI(name) == IF name = Str_mlx5_0 THEN "0000:3b:00.0" ELSE "0000:5e:00.0"

\* The PCI address of a physical function that has no InfiniBand device.
ForeignPCI == "0000:af:00.0"

AdapterNetDevices(name) == IF name = Str_mlx5_0 THEN <<"ib0">> ELSE <<"ib1", "ib2">>

\* The ascending sequence of the port numbers in a set.
RECURSIVE PortSeq(_)
PortSeq(S) ==
    IF S = {} THEN <<>>
    ELSE LET m == CHOOSE x \in S : \A y \in S : y <= x
         IN  PortSeq(S \ {m}) \o <<[PortNum |-> m]>>

\* The outcomes of the verbs queries of one ListDevices call: per adapter,
\* whether queryDevice succeeded and the ports whose queryPort succeeded.
QueryOutcomes ==
    {q \in [AdapterSet -> [ok : BOOLEAN, ports : SUBSET (1..MaxPorts)]] :
        \A a \in AdapterSet : q[a].ports \subseteq 1..NumPorts(a)}

\* ibverbs.queryDevice: the ports 1..NumPorts, a port whose query fails is
\* left out.
queryDevice(name, q) == [Name |-> name, Ports |-> PortSeq(q[name].ports)]

\* ibverbs.ListDevices: an adapter whose query fails is left out.
RECURSIVE ListDevicesFrom(_, _)
ListDevicesFrom(i, q) ==
    IF i > Len(Adapters) THEN <<>>
    ELSE (IF q[Adapters[i]].ok THEN <<queryDevice(Adapters[i], q)>> ELSE <<>>)
         \o ListDevicesFrom(i + 1, q)

ListDevices(q) == ListDevicesFrom(1, q)

\* The /sys/class/infiniband record of one adapter, as sysfs.GetIBDeviceInfo
\* reads it: no record; a record whose device link does not resolve (no PCI
\* address and, device/net being read through that link, no interface); a PF; a
\* device that is neither PF nor VF; a VF whose physfn link is unreadable,
\* names the other adapter, or names a PF outside the listing.
NoRecord(name) ==
    [present |-> FALSE, Name |-> name, PCIAddress |-> "", NUMANode |-> UnknownNUMA,
     IsPF |-> FALSE, IsVF |-> FALSE, ParentPF |-> "", NetDevices |-> <<>>]

SysfsRecords(name) ==
    LET base == [NoRecord(name) EXCEPT !.present = TRUE]
        pci == [base EXCEPT !.PCIAddress = AdapterPCI(name), !.NUMANode = 0,
                            !.NetDevices = AdapterNetDevices(name)]
        other == CHOOSE a \in AdapterSet : a # name
    IN  {NoRecord(name), base, pci,
         [pci EXCEPT !.IsPF = TRUE],
         [pci EXCEPT !.IsPF = TRUE, !.NUMANode = UnknownNUMA]}
        \cup {[pci EXCEPT !.IsVF = TRUE, !.ParentPF = pf] :
                 pf \in {"", AdapterPCI(other), ForeignPCI}}

Topologies == {t \in [AdapterSet -> UNION {SysfsRecords(a) : a \in AdapterSet}] :
                  \A a \in AdapterSet : t[a] \in SysfsRecords(a)}

\* sysfs.ListIBDevices: the records of the directory entries, in name order;
\* nil when the directory cannot be read.
RECURSIVE ListIBDevicesFrom(_, _)
ListIBDevicesFrom(i, t) ==
    IF i > Len(Adapters) THEN <<>>
    ELSE (IF t[Adapters[i]].present THEN <<t[Adapters[i]]>> ELSE <<>>)
         \o ListIBDevicesFrom(i + 1, t)

ListIBDevices(t, ok) == IF ok THEN ListIBDevicesFrom(1, t) ELSE <<>>

\* sysfsMap: the record of an adapter name, the last one listed under it.
HasSysfs(sysfsDevices, name) == \E i \in DOMAIN sysfsDevices : sysfsDevices[i].Name = name

sysfsMap(sysfsDevices, name) ==
    sysfsDevices[CHOOSE i \in DOMAIN sysfsDevices :
                    /\ sysfsDevices[i].Name = name
                    /\ \A j \in DOMAIN sysfsDevices :
                          sysfsDevices[j].Name = name => j <= i]

\* pciToIBDev: the adapter name of a PCI address, over the records that have one.
HasPCI(sysfsDevices, pci) ==
    \E i \in DOMAIN sysfsDevices :
        sysfsDevices[i].PCIAddress # "" /\ sysfsDevices[i].PCIAddress = pci

pciToIBDev(sysfsDevices, pci) ==
    sysfsDevices[CHOOSE i \in DOMAIN sysfsDevices :
                    /\ sysfsDevices[i].PCIAddress = pci
                    /\ \A j \in DOMAIN sysfsDevices :
                          sysfsDevices[j].PCIAddress = pci => j <= i].Name

\* Mutant: the composite name leaves the port number out.
ComposeDeviceName_NoPort(name, portNum) == name \o Str_port

\* fmt.Sprintf("%s-port%d", ibDev.Name, port.PortNum).
ComposeDeviceName(name, portNum) == name \o Str_port \o SprintfD(portNum)

\* Step 4, the entry of a port before the sysfs augmentation, with the type
\* a device without sysfs record keeps.
DefaultEntry(ibDev, port) ==
    [DeviceName |-> ComposeDeviceName(ibDev.Name, port.PortNum),
     IBDevName |-> ibDev.Name, PortNum |-> port.PortNum, Type |-> "PF",
     NUMANode |-> UnknownNUMA, PCIAddress |-> "", ParentDevice |-> <<>>,
     NetDevices |-> <<>>]

\* Mutant: a physical function names itself as its parent.
ParentOf_Always(sysfsDevices, si) == si.Name

\* Step 4, the parent adapter of a device: set for a VF whose physfn address
\* belongs to a listed InfiniBand device.
ParentOf(sysfsDevices, si) ==
    IF si.IsVF /\ si.ParentPF # "" /\ HasPCI(sysfsDevices, si.ParentPF)
    THEN pciToIBDev(sysfsDevices, si.ParentPF)
    ELSE <<>>

\* Mutant: the sysfs augmentation is skipped.
BuildEntry_NoAugmentation(sysfsDevices, ibDev, port) == DefaultEntry(ibDev, port)

\* Step 4, the entry of one port.
BuildEntry(sysfsDevices, ibDev, port) ==
    IF HasSysfs(sysfsDevices, ibDev.Name)
    THEN LET si == sysfsMap(sysfsDevices, ibDev.Name)
         IN  [DefaultEntry(ibDev, port) EXCEPT
                 !.PCIAddress = si.PCIAddress,
                 !.NUMANode = si.NUMANode,
                 !.NetDevices = si.NetDevices,
                 !.Type = IF si.IsVF THEN "VF" ELSE "PF",
                 !.ParentDevice = ParentOf(sysfsDevices, si)]
    ELSE DefaultEntry(ibDev, port)

\* Mutant: only the first port of an adapter is fused.
PortEntries_FirstOnly(sysfsDevices, ibDev) ==
    IF ibDev.Ports = <<>> THEN <<>>
    ELSE <<BuildEntry(sysfsDevices, ibDev, ibDev.Ports[1])>>

\* Step 4, the inner loop over the ports of one adapter.
PortEntries(sysfsDevices, ibDev) ==
    [k \in DOMAIN ibDev.Ports |-> BuildEntry(sysfsDevices, ibDev, ibDev.Ports[k])]

\* Step 4, the outer loop over the adapters.
RECURSIVE BuildEntries(_, _, _)
BuildEntries(sysfsDevices, ibDevices, i) ==
    IF i > Len(ibDevices) THEN <<>>
    ELSE PortEntries(sysfsDevices, ibDevices[i])
         \o BuildEntries(sysfsDevices, ibDevices, i + 1)

\* Mutant: the parentDevice attribute is published for every device.
AttributeNames_AlwaysParent(e) == {"type", "numaNode", "pciAddress", "parentDevice"}

\* Step 5, the attribute names of a published device.
AttributeNames(e) ==
    {"type", "numaNode", "pciAddress"}
    \cup (IF e.ParentDevice # <<>> THEN {"parentDevice"} ELSE {})

\* Step 5, the published device of an entry.
PublishedDevice(e) ==
    [Name |-> e.DeviceName,
     Attributes |-> [a \in AttributeNames(e) |->
                        CASE a = "type" -> e.Type
                          [] a = "numaNode" -> e.NUMANode
                          [] a = "pciAddress" -> e.PCIAddress
                          [] a = "parentDevice" -> e.ParentDevice]]

\* resourceslice.DriverResources{}: no pool.
NoResources == [n \in {} |-> <<>>]

\* Step 5, the resources: one pool, named after the node, of one slice.
DriverResources(entries) ==
    [n \in {nodeName} |-> <<[Devices |-> [k \in DOMAIN entries |-> PublishedDevice(entries[k])]]>>]

\* GetDeviceEntryByName: whether the snapshot holds an entry of that name.
GetDeviceEntryByName(name) == \E k \in DOMAIN devices : devices[k].DeviceName = name

IdleEnum == [pc |-> "idle", ibDevices |-> <<>>, sysfsDevices |-> <<>>,
             entries |-> <<>>, resources |-> NoResources, err |-> "none"]

\* EnumerateDevices, step 2: the hardware query and its two early returns. It
\* follows step 1, which is skipped when numVFs is 0.
EnumListDevices(q, ok) ==
    /\ \/ enum.pc = "idle" /\ numVFs = 0
       \/ enum.pc = "list"
    /\ LET ibDevices == IF ok THEN ListDevices(q) ELSE <<>> IN
       enum' = [IdleEnum EXCEPT
                  !.ibDevices = ibDevices,
                  !.err = IF ok THEN "nil" ELSE "errListDevices",
                  !.pc = IF ok /\ Len(ibDevices) > 0 THEN "sysfs" ELSE "returned"]
    /\ UNCHANGED <<devices, ibclass, nonEnumVars>>

\* EnumerateDevices, step 3: the sysfs listing; its error is only logged.
EnumSysfs(ok) ==
    /\ enum.pc = "sysfs"
    /\ enum' = [enum EXCEPT !.sysfsDevices = ListIBDevices(ibclass, ok),
                            !.pc = "build"]
    /\ UNCHANGED <<devices, ibclass, nonEnumVars>>

\* EnumerateDevices, step 4: the entries are built and become the snapshot.
EnumBuild ==
    /\ enum.pc = "build"
    /\ LET entries == BuildEntries(enum.sysfsDevices, enum.ibDevices, 1) IN
       /\ enum' = [enum EXCEPT !.entries = entries, !.pc = "publish"]
       /\ devices' = entries
    /\ UNCHANGED <<ibclass, nonEnumVars>>

\* EnumerateDevices, step 5: the resources are built and returned.
EnumPublish ==
    /\ enum.pc = "publish"
    /\ enum' = [enum EXCEPT !.resources = DriverResources(enum.entries),
                            !.pc = "returned"]
    /\ UNCHANGED <<devices, ibclass, nonEnumVars>>

\* The caller takes the result; the profile keeps its snapshot.
EnumReturn ==
    /\ enum.pc = "returned"
    /\ enum' = IdleEnum
    /\ UNCHANGED <<devices, ibclass, nonEnumVars>>

InitEnumIdle ==
    /\ devices = <<>>
    /\ enum = IdleEnum
    /\ ibclass = [a \in AdapterSet |-> NoRecord(a)]

(***************************************************************************)
(* ibverbs: PortInfo.EffectiveSpeed                                        *)
(***************************************************************************)
\* The active_width and active_speed codes a port query may report: the
\* codes of the tables and codes outside them.
WidthCodes == {0, 1, 2, 3, 4, 8, 16}

SpeedCodes == {0, 1, 2, 3, 4, 8, 16, 32, 64, 128, 256}

\* Mutant: the width code is taken for the lane count.
WidthMultiplier_Code(width) == width

\* The switch on ActiveWidth: 1x, 4x, 8x, 12x, and 1 for any other code.
WidthMultiplier(width) ==
    CASE width = 1 -> 1
      [] width = 2 -> 4
      [] width = 4 -> 8
      [] width = 8 -> 12
      [] OTHER -> 1

\* The switch on ActiveSpeed: the base rate in Gb/s of the codes it lists.
BaseSpeed(speed) ==
    CASE speed = 1 -> 2
      [] speed = 2 -> 5
      [] speed = 4 -> 10
      [] speed = 8 -> 10
      [] speed = 16 -> 14
      [] speed = 32 -> 25
      [] speed = 64 -> 50
      [] speed = 128 -> 100
      [] speed = 256 -> 200

Str_Gbps == <<"G", "b", "/", "s">>

\* PortInfo.EffectiveSpeed: "%dGb/s" of the base rate times the multiplier,
\* of the speed code times the multiplier for a code outside the switch.
EffectiveSpeed(width, speed) ==
    IF speed \in {1, 2, 4, 8, 16, 32, 64, 128, 256}
    THEN SprintfD(BaseSpeed(speed) * WidthMultiplier(width)) \o Str_Gbps
    ELSE SprintfD(speed * WidthMultiplier(width)) \o Str_Gbps

IdlePort == [pc |-> "idle", ActiveWidth |-> 0, ActiveSpeed |-> 0, LinkSpeed |-> <<>>]

\* ibverbs.queryPort: the PortInfo of a port, with its width and speed codes.
queryPort(width, speed) ==
    /\ portInfo.pc = "idle"
    /\ portInfo' = [IdlePort EXCEPT !.pc = "queried", !.ActiveWidth = width,
                                !.ActiveSpeed = speed]
    /\ UNCHANGED <<cli, nonMiscVars>>

\* EnumerateDevices, step 4: LinkSpeed: port.EffectiveSpeed().
PortEffectiveSpeed ==
    /\ portInfo.pc = "queried"
    /\ portInfo' = [portInfo EXCEPT !.pc = "formatted",
                            !.LinkSpeed = EffectiveSpeed(portInfo.ActiveWidth, portInfo.ActiveSpeed)]
    /\ UNCHANGED <<cli, nonMiscVars>>

\* The next port is queried.
PortDone ==
    /\ portInfo.pc = "formatted"
    /\ portInfo' = IdlePort
    /\ UNCHANGED <<cli, nonMiscVars>>

(***************************************************************************)
(* The argument lists generated for the move-netdev helper, and the        *)
(* subcommand that receives them                                           *)
(***************************************************************************)
\* netns.GenerateMoveNetdevCommand(pluginBinary, netdev, rdmaDev).
GenerateMoveNetdevCommand(pluginBinary, netdev, rdmaDev) ==
    [Path |-> pluginBinary,
     Args |-> <<"move-netdev", "--netdev", netdev>>
              \o (IF rdmaDev # "" THEN <<"--rdma-dev", rdmaDev>> ELSE <<>>)]

\* The flags of the application that take a value (main.go, cliFlags);
\* node-name is required and falls back on the NODE_NAME variable.
AppFlags == {"--node-name", "--cdi-root", "--num-vfs",
             "--kubelet-registrar-directory-path",
             "--kubelet-plugins-directory-path", "--healthcheck-port",
             "--device-profile", "--driver-name"}

\* The flags of the move-netdev subcommand: ib-dev, required.
MoveNetdevFlags == {"--ib-dev"}

\* The flag parsing of one level of the command line, over the arguments from
\* position i on: it consumes flags and their values up to the first argument
\* that is not a flag; a flag that is not defined at that level, or a flag
\* without value, is an error.
RECURSIVE ParseFlags(_, _, _, _)
ParseFlags(args, i, defined, seen) ==
    LET dashed == AppFlags \cup MoveNetdevFlags \cup {"--netdev", "--rdma-dev"} IN
    IF i > Len(args) THEN [err |-> "nil", next |-> i, seen |-> seen]
    ELSE IF args[i] \notin dashed THEN [err |-> "nil", next |-> i, seen |-> seen]
    ELSE IF args[i] \notin defined
         THEN [err |-> "errUndefinedFlag", next |-> i, seen |-> seen]
    ELSE IF i + 1 > Len(args)
         THEN [err |-> "errFlagValue", next |-> i, seen |-> seen]
    ELSE ParseFlags(args, i + 2, defined, seen \cup {args[i]})

\* The run of the plugin binary on argv (program name first): the flags of
\* the application are parsed and its required flag is verified before the
\* Before function and the dispatch to the subcommand; the subcommand then
\* parses and verifies its own flags. Without arguments the application's
\* Action, the plugin itself, runs.
RunMoveNetdev(argv, nodeNameEnv) ==
    LET app == ParseFlags(argv, 2, AppFlags, {}) IN
    IF app.err # "nil" THEN app.err
    ELSE IF "--node-name" \notin app.seen /\ ~nodeNameEnv THEN "errNodeNameRequired"
    ELSE IF app.next > Len(argv) THEN "runPlugin"
    ELSE IF argv[app.next] # "move-netdev" THEN "errArguments"
    ELSE LET sub == ParseFlags(argv, app.next + 1, MoveNetdevFlags, {}) IN
         IF sub.err # "nil" THEN sub.err
         ELSE IF "--ib-dev" \notin sub.seen THEN "errRequiredFlag"
         ELSE "nil"

IdleCli == [pc |-> "idle", source |-> "none", args |-> <<>>,
            nodeNameEnv |-> FALSE, err |-> "none"]

\* The container runtime runs the createRuntime hook the planner returned for
\* a device: the hook's Args are the argv of the process; nodeNameEnv tells
\* whether NODE_NAME is in the environment the runtime gives it.
CliExecHook(d, nodeNameEnv) ==
    /\ cli.pc = "idle"
    /\ plan.pc = "returned"
    /\ d \in DOMAIN plan.edits
    /\ plan.edits[d].Hooks # <<>>
    /\ LET args == plan.edits[d].Hooks[1].Args IN
       cli' = [pc |-> "exited", source |-> "applyIbConfig", args |-> args,
               nodeNameEnv |-> nodeNameEnv,
               err |-> RunMoveNetdev(args, nodeNameEnv)]
    /\ UNCHANGED <<portInfo, nonMiscVars>>

\* The command GenerateMoveNetdevCommand returns is executed: the plugin
\* binary with the returned arguments after the program name.
CliExecGenerated(netdev, rdmaDev, nodeNameEnv) ==
    /\ cli.pc = "idle"
    /\ plan.pc = "idle"
    /\ LET cmd == GenerateMoveNetdevCommand(hookPath, netdev, rdmaDev)
           args == <<cmd.Path>> \o cmd.Args IN
       cli' = [pc |-> "exited", source |-> "GenerateMoveNetdevCommand",
               args |-> args, nodeNameEnv |-> nodeNameEnv,
               err |-> RunMoveNetdev(args, nodeNameEnv)]
    /\ UNCHANGED <<portInfo, nonMiscVars>>

CliExit ==
    /\ cli.pc = "exited"
    /\ cli' = IdleCli
    /\ UNCHANGED <<portInfo, nonMiscVars>>

InitMiscIdle ==
    /\ portInfo = IdlePort
    /\ cli = IdleCli

(***************************************************************************)
(* Specifications                                                          *)
(***************************************************************************)

InitProvIdle ==
    /\ isPF = [p \in PCIAddrs |-> TRUE]
    /\ totalvfs = [p \in PCIAddrs |-> MaxCap]
    /\ numvfs = [p \in PCIAddrs |-> 0]
    /\ virtfn = [p \in PCIAddrs |-> 0]
    /\ call = [p \in PCIAddrs |-> IdleCall]
    /\ numVFs = 0
    /\ fleet = IdleFleet

InitHookIdle ==
    /\ linkNs = [d \in NetDevs |-> HostNs]
    /\ linkUp = [d \in NetDevs |-> FALSE]
    /\ rdmaNs = [d \in RdmaDevs |-> HostNs]
    /\ hook = IdleHook
    /\ cleanup = IdleCleanup

\* Direct callers of ProvisionVFs, one call at a time.
InitDirect ==
    /\ InitSysfs
    /\ call = [p \in PCIAddrs |-> IdleCall]
    /\ numVFs = 0
    /\ fleet = IdleFleet
    /\ InitHookIdle
    /\ InitEnumIdle
    /\ InitPlanIdle
    /\ InitMiscIdle

NextDirect ==
    \/ \E p \in PCIAddrs, d \in DesiredValues : DirectCall(p, d)
    \/ \E p \in PCIAddrs : DirectCallAgain(p)
    \/ \E p \in PCIAddrs : DirectReturn(p)
    \/ \E p \in PCIAddrs : ProvisionVFsStep(p)
    \/ \E p \in PCIAddrs : CancelContext(p)
    \/ \E p \in PCIAddrs : KernelCreateVF(p)
    \/ \E p \in PCIAddrs : DestroyVFs(p)

SpecDirect == InitDirect /\ [][NextDirect]_vars

\* Two callers of ProvisionVFs in parallel, each on its own PF: mlx5_0 has
\* the largest capacity, mlx5_1 has capacity 1, each with any pool.
InitParallel ==
    /\ isPF = [p \in PCIAddrs |-> TRUE]
    /\ totalvfs = [p \in PCIAddrs |-> IF p = PCIAddressOf("mlx5_0") THEN MaxCap ELSE 1]
    /\ numvfs \in [PCIAddrs -> 0..MaxCap]
    /\ \A p \in PCIAddrs : numvfs[p] <= totalvfs[p]
    /\ virtfn = numvfs
    /\ call = [p \in PCIAddrs |-> IdleCall]
    /\ numVFs = 0
    /\ fleet = IdleFleet
    /\ InitHookIdle
    /\ InitEnumIdle
    /\ InitPlanIdle
    /\ InitMiscIdle

NextParallel ==
    \/ \E p \in PCIAddrs, d \in DesiredValues : ParallelCall(p, d)
    \/ \E p \in PCIAddrs : ProvisionVFsStep(p)
    \/ \E p \in PCIAddrs : KernelCreateVF(p)
    \/ \E p \in PCIAddrs : ParallelReturn(p)
    \/ \E p \in PCIAddrs : DestroyVFs(p)

SpecParallel == InitParallel /\ [][NextParallel]_vars

\* EnumerateDevices of a profile that provisions VFs: fleet provisioning, then
\* the enumeration. The InfiniBand class directory shows the two adapters at
\* their PCI addresses, each a PF iff its PCI device has the SR-IOV files.
InitFleet ==
    /\ InitSysfs
    /\ call = [p \in PCIAddrs |-> IdleCall]
    /\ numVFs \in 0..(MaxCap + 1)
    /\ fleet = IdleFleet
    /\ InitHookIdle
    /\ devices = <<>>
    /\ enum = IdleEnum
    /\ ibclass \in Topologies
    /\ \A a \in AdapterSet :
         /\ ibclass[a].PCIAddress = AdapterPCI(a)
         /\ ibclass[a].NUMANode = 0
         /\ ~ibclass[a].IsVF
         /\ ibclass[a].IsPF = isPF[AdapterPCI(a)]
    /\ InitPlanIdle
    /\ InitMiscIdle

\* The enumeration that follows the provisioning is taken with every verbs
\* query of a listing and the sysfs listing succeeding; SpecEnum covers the
\* partial listings and the failed sysfs listing.
NextFleet ==
    \/ EnumerateDevicesProvision
    \/ FleetDiscover
    \/ FleetCall
    \/ FleetReturn
    \/ FleetFinish
    \/ \E ok \in BOOLEAN :
          EnumListDevices([a \in AdapterSet |-> [ok |-> TRUE, ports |-> 1..NumPorts(a)]], ok)
    \/ EnumSysfs(TRUE)
    \/ EnumBuild
    \/ EnumPublish
    \/ EnumReturn
    \/ \E p \in PCIAddrs : ProvisionVFsStep(p)
    \/ \E p \in PCIAddrs : CancelContext(p)
    \/ \E p \in PCIAddrs : KernelCreateVF(p)

SpecFleet == InitFleet /\ [][NextFleet]_vars

\* Hook invocations by the container runtime, one at a time.
InitHook ==
    /\ InitProvIdle
    /\ InitHookIdle
    /\ InitEnumIdle
    /\ InitPlanIdle
    /\ InitMiscIdle

NextHook ==
    \/ \E d \in HookIBDevs, pl \in Payloads : HookInvoke(d, pl)
    \/ HookDecode
    \/ HookResolve
    \/ HookMove
    \/ HookUp
    \/ HookRdma
    \/ HookExit
    \/ \E d \in NetDevs, pid \in PidValues \ {0} : MoveNetdevToHostNetns(d, pid)
    \/ CleanupReturn

SpecHook == InitHook /\ [][NextHook]_vars

\* Enumerations of one profile, one call at a time, over each topology.
InitEnum ==
    /\ InitProvIdle
    /\ InitHookIdle
    /\ InitPlanIdle
    /\ InitMiscIdle
    /\ devices = <<>>
    /\ enum = IdleEnum
    /\ ibclass \in Topologies

NextEnum ==
    \/ \E q \in QueryOutcomes, ok \in BOOLEAN : EnumListDevices(q, ok)
    \/ \E ok \in BOOLEAN : EnumSysfs(ok)
    \/ EnumBuild
    \/ EnumPublish
    \/ EnumReturn

SpecEnum == InitEnum /\ [][NextEnum]_vars

\* Calls of ApplyConfig, one at a time.
InitPlan ==
    /\ InitProvIdle
    /\ InitHookIdle
    /\ InitEnumIdle
    /\ InitPlanIdle
    /\ InitMiscIdle

NextPlan ==
    \/ \E c \in ConfigObjects, r \in ResultLists : ApplyConfig(c, r)
    \/ PlanValidate
    \/ PlanDevice
    \/ PlanFinish
    \/ PlanReturn

SpecPlan == InitPlan /\ [][NextPlan]_vars

\* Runs of the plugin binary on the argument lists the code generates: the
\* hooks ApplyConfig returns for the default configuration, and the commands
\* of GenerateMoveNetdevCommand.
NextCli ==
    \/ \E r \in ResultLists : ApplyConfig(NilConfig, r)
    \/ PlanValidate
    \/ PlanDevice
    \/ PlanFinish
    \/ PlanReturn
    \/ \E d \in PlanDeviceNames, e \in BOOLEAN : CliExecHook(d, e)
    \/ \E n \in NetDevs, r \in {""} \cup RdmaDevs, e \in BOOLEAN :
          CliExecGenerated(n, r, e)
    \/ CliExit

SpecCli == InitPlan /\ [][NextCli]_vars

\* Port queries, one port at a time.
InitSpeed ==
    /\ InitProvIdle
    /\ InitHookIdle
    /\ InitEnumIdle
    /\ InitPlanIdle
    /\ InitMiscIdle

NextSpeed ==
    \/ \E w \in WidthCodes, sp \in SpeedCodes : queryPort(w, sp)
    \/ PortEffectiveSpeed
    \/ PortDone

SpecSpeed == InitSpeed /\ [][NextSpeed]_vars

(***************************************************************************)
(* Properties of ProvisionVFs (SpecDirect)                                 *)
(***************************************************************************)

\* The call on p got past both reads and the equality test.
PastChecks(p) ==
    \/ call[p].pc \in {"reset", "pause", "set", "wait"}
    \/ call[p].pc = "done" /\ call[p].err \in {"nil", "errReset", "errSet", "errTimeout"}
                           /\ call[p].entry # call[p].desired

\* C1: when the count at the call is nonzero and differs from the desired
\* count, the write of the desired count (line 108) is the third event of the
\* call, after a successful write of 0 and the pause; and the count is 0
\* whenever the desired count is written.
C1_ResetBeforeSet ==
    \A p \in PCIAddrs :
      LET c == call[p] IN
      /\ \A i \in DOMAIN c.log :
           c.log[i].kind = "set" =>
             /\ c.log[i].before = 0
             /\ c.log[i].value = c.desired
             /\ IF c.entry # 0
                THEN /\ i = 3
                     /\ c.log[1] = LogEntry("reset", 0, c.entry, TRUE)
                     /\ c.log[2].kind = "pause"
                ELSE i = 1
      /\ (PastChecks(p) /\ c.entry # 0 /\ c.pc # "reset") =>
             /\ Len(c.log) >= 1
             /\ c.log[1].kind = "reset"
             /\ c.log[1].value = 0

\* C1 witness: a resize of a live pool wrote 0, paused, and wrote the desired
\* count, which the kernel accepted.
C1_Witness ==
    \E p \in PCIAddrs :
      /\ call[p].entry > 0
      /\ call[p].desired > 0
      /\ Len(call[p].log) = 3
      /\ call[p].log[3].kind = "set"
      /\ call[p].log[3].ok

\* C2: the second of two consecutive calls with the same PF and the same
\* desired count, a count the PF can hold, never writes sriov_numvfs.
C2_SecondCallNeverWrites ==
    \A p \in PCIAddrs :
      (/\ call[p].round = 2
       /\ isPF[p]
       /\ call[p].desired \in 0..totalvfs[p]) => Writes(call[p].log) = {}

\* C3: a call with a desired count above the PF's sriov_totalvfs writes
\* nothing, leaves the count alone, and ends in an error: the capacity error,
\* or the read error when sriov_totalvfs could not be read.
C3_OverCapacityRejected ==
    \A p \in PCIAddrs :
      (call[p].pc # "idle" /\ isPF[p] /\ call[p].desired > totalvfs[p]) =>
         /\ call[p].log = <<>>
         /\ numvfs[p] = call[p].entry
         /\ call[p].pc \in {"getTotal", "done"}
         /\ call[p].pc = "done" => call[p].err \in {"errExceeds", "errGetTotal"}

\* C3 witness: a request above capacity was rejected on a PF with live VFs.
C3_Witness ==
    \E p \in PCIAddrs :
      /\ call[p].pc = "done"
      /\ call[p].err = "errExceeds"
      /\ call[p].desired > totalvfs[p]
      /\ numvfs[p] > 0

\* C4: a call that wrote the desired count returns success only on a poll that
\* saw at least that many VF entries, before the deadline; a timeout is
\* reported only at the deadline, and then the accepted write of the desired
\* count is the last event of the call and the count stays at it.
C4_SuccessOnlyAfterVFsSeen ==
    \A p \in PCIAddrs :
      LET c == call[p] IN
      /\ (c.pc = "done" /\ c.err = "nil" /\ c.log # <<>>) =>
            /\ c.seen >= c.desired
            /\ virtfn[p] >= c.desired
            /\ c.elapsed < vfSettleTimeout
      /\ (c.pc = "done" /\ c.err = "errTimeout") =>
            /\ c.elapsed >= vfSettleTimeout
            /\ c.log[Len(c.log)] = LogEntry("set", c.desired, 0, TRUE)
            /\ numvfs[p] = c.desired
      /\ c.pc = "wait" => c.log[Len(c.log)] = LogEntry("set", c.desired, 0, TRUE)

\* C4 witness: the call timed out with some, not all, of the VFs created, and
\* they remain.
C4_Witness ==
    \E p \in PCIAddrs :
      /\ call[p].pc = "done"
      /\ call[p].err = "errTimeout"
      /\ virtfn[p] > 0
      /\ virtfn[p] < call[p].desired

\* C5: once the caller's context is cancelled, the poll for VF appearance does
\* not sleep again: it returns at its next iteration.
C5_PollObservesCancel ==
    [][\A p \in PCIAddrs :
         (call[p].pc = "wait" /\ call[p].ctxDone)
            => call'[p].elapsed = call[p].elapsed]_vars

(***************************************************************************)
(* Properties of Profile.provisionVFs (SpecFleet)                          *)
(***************************************************************************)

MinOf(a, b) == CHOOSE m \in {a, b} : m <= a /\ m <= b

\* C6: when the fleet pass ends, every discovered PF has been handed to
\* ProvisionVFs, and every PF whose own provisioning succeeded is at its
\* desired count, whatever happened to the other PFs.
C6_OtherPFsStillProvisioned ==
    (fleet.pc = "done" /\ fleet.err # "errDiscover") =>
       \A i \in 1..Len(fleet.pfs) :
         /\ i <= Len(fleet.results)
         /\ fleet.results[i] = "nil" =>
              numvfs[fleet.pfs[i].PCIAddress] = MinOf(numVFs, fleet.pfs[i].TotalVFs)

\* C7: every ProvisionVFs call of the fleet pass gets min(numVFs, the PF's
\* sriov_totalvfs), so it is never rejected for exceeding the capacity.
C7_FleetClamps ==
    \A p \in PCIAddrs :
      call[p].caller = "fleet" =>
        /\ call[p].desired = MinOf(numVFs, totalvfs[p])
        /\ call[p].err # "errExceeds"

\* C7 witness: a request above a PF's capacity was provisioned at capacity.
C7_Witness ==
    \E p \in PCIAddrs :
      /\ call[p].caller = "fleet"
      /\ numVFs > totalvfs[p]
      /\ call[p].pc = "done"
      /\ call[p].err = "nil"
      /\ call[p].log # <<>>
      /\ numvfs[p] = totalvfs[p]

NoEligiblePF == \A p \in PCIAddrs : ~isPF[p] \/ totalvfs[p] = 0

\* C8: on a host without a PF of nonzero capacity whose IB devices can be
\* listed, the fleet pass ends in success, calls ProvisionVFs on nothing and
\* writes nothing.
C8_NoEligiblePFsNoOp ==
    (fleet.pc = "done" /\ fleet.err # "errDiscover" /\ NoEligiblePF) =>
       /\ fleet.err = "nil"
       /\ fleet.results = <<>>
       /\ fleet.writes = 0
       /\ NoCallActive

\* C8 witness: the pass ended on a host whose IB devices are all VFs.
C8_Witness ==
    /\ fleet.pc = "done"
    /\ fleet.err = "nil"
    /\ \A p \in PCIAddrs : ~isPF[p]
    /\ numVFs > 0

(***************************************************************************)
(* Properties of the move-netdev hook (SpecHook)                           *)
(***************************************************************************)

IfaceOps(ops) == {i \in DOMAIN ops : ops[i].op \in {"move", "up"}}

\* C9: an invocation with a failed interface move or bring-up ends in an
\* error; an invocation whose interface operations all succeeded and whose
\* RDMA move failed ends in success.
C9_HookAsymmetry ==
    hook.pc = "done" =>
      /\ (\E i \in IfaceOps(hook.ops) : ~hook.ops[i].ok)
            => hook.err \in {"errMove", "errUp"}
      /\ ( /\ \E i \in DOMAIN hook.ops : hook.ops[i].op = "rdma" /\ ~hook.ops[i].ok
           /\ \A i \in IfaceOps(hook.ops) : hook.ops[i].ok )
            => hook.err = "nil"

\* C9 witness: both interfaces of an adapter were moved and brought up, the
\* RDMA move failed, and the hook succeeded.
C9_Witness ==
    /\ hook.pc = "done"
    /\ hook.err = "nil"
    /\ Len(hook.ops) = 5
    /\ hook.ops[5].op = "rdma"
    /\ ~hook.ops[5].ok

\* C10: an invocation whose payload cannot be decoded, or decodes to pid 0,
\* attempts no namespace operation and ends in an error.
C10_PidZeroRejected ==
    (hook.pc # "idle" /\ (~hook.payload.decodable \/ DecodedPid(hook.payload) = 0)) =>
       /\ hook.ops = <<>>
       /\ hook.pc \in {"decode", "done"}
       /\ hook.pc = "done" => hook.err \in {"errDecode", "errPidZero"}

\* C10 witness: a decodable payload carrying pid 0 was rejected.
C10_Witness ==
    /\ hook.pc = "done"
    /\ hook.err = "errPidZero"
    /\ hook.payload.hasPid

\* C11: within one hook invocation the interfaces are resolved before any
\* operation; the operations are, interface by interface in the resolved
\* order, a move followed by the bring-up of the same interface; the RDMA
\* move comes only after every interface was moved and brought up
\* successfully; a failed interface operation is the last operation.
C11_HookOrder ==
    LET ops == hook.ops
        n == Len(hook.netDevs)
    IN  /\ ops # <<>> => hook.pc \in {"move", "up", "rdma", "done"}
        /\ \A i \in DOMAIN ops :
             /\ (i < Len(ops) /\ ops[i].op # "rdma") => ops[i].ok
             /\ ops[i].op = "move" =>
                  /\ i % 2 = 1
                  /\ (i + 1) \div 2 <= n
                  /\ ops[i].dev = hook.netDevs[(i + 1) \div 2]
             /\ ops[i].op = "up" =>
                  /\ i % 2 = 0
                  /\ ops[i - 1].op = "move"
                  /\ ops[i - 1].dev = ops[i].dev
                  /\ ops[i - 1].ok
             /\ ops[i].op = "rdma" =>
                  /\ i = 2 * n + 1
                  /\ i = Len(ops)
                  /\ \A j \in 1..(i - 1) : ops[j].ok

\* An invocation moved and brought up two interfaces and then moved the
\* RDMA device.
C11_Witness ==
    /\ hook.pc = "done"
    /\ Len(hook.netDevs) = 2
    /\ Len(hook.ops) = 5
    /\ hook.ops[5].op = "rdma"
    /\ hook.ops[5].ok

\* C12: MoveNetdevToHostNetns invoked on an interface that is already in the
\* host namespace succeeds and leaves the interface on the host.
C12_HostMoveIdempotent ==
    (cleanup.pc = "done" /\ cleanup.before = HostNs) =>
        /\ cleanup.err = "nil"
        /\ linkNs[cleanup.netdev] = HostNs

(***************************************************************************)
(* Properties of the isolation planner (SpecPlan)                          *)
(***************************************************************************)
\* The configuration contract: an IbConfig whose partition key, when set, is
\* in 1..0xFFFF, whose traffic class, when set, is in 0..255, and whose MTU,
\* when set, is one of the five enumerated values.
ValidConfigObject(c) ==
    /\ c.kind = "IbConfig"
    /\ c.Pkey.set => c.Pkey.v \in 1..65535
    /\ c.TrafficClass.set => c.TrafficClass.v \in 0..255
    /\ c.MTU.set => c.MTU.v \in {256, 512, 1024, 2048, 4096}

\* C13: ApplyConfig given an invalid IbConfig, or an object that is not an
\* IbConfig, returns an error and no edits for any device; no edits of any
\* device are built for a configuration that does not pass validation.
C13_FailsClosed ==
    /\ (plan.pc = "returned" /\ ~ValidConfigObject(plan.config)) =>
          /\ plan.err # "nil"
          /\ DOMAIN plan.edits = {}
    /\ DOMAIN plan.perDeviceEdits # {} => ValidConfigObject(plan.config)
    /\ plan.pc = "validate" => DOMAIN plan.perDeviceEdits = {}

\* A call with two allocated devices and an MTU outside the enumerated set
\* returned the validation error.
C13_Witness ==
    /\ plan.pc = "returned"
    /\ plan.err = "errValidate"
    /\ plan.config.MTU.set
    /\ plan.config.MTU.v = 9000
    /\ Len(plan.results) = 2

\* Whether a device name holds the port separator.
HasPortSeparator(d) ==
    \E k \in 1..Len(d) : k + 4 <= Len(d) /\ SubSeq(d, k, k + 4) = <<"-", "p", "o", "r", "t">>

\* The devices of the returned edits are the allocated devices.
PlannedAll ==
    DOMAIN plan.edits = {plan.results[k] : k \in DOMAIN plan.results}

\* C14: in the edits ApplyConfig returns, a device whose name holds the port
\* separator has exactly one hook, a createRuntime hook whose --ib-dev
\* argument is the adapter part of the name (the part before the first
\* separator: for a published name "<adapter>-port<N>", the adapter); a
\* device whose name does not hold it has environment data and no hook.
C14_OneHookPerParsedDevice ==
    (plan.pc = "returned" /\ plan.err = "nil") =>
        /\ PlannedAll
        /\ \A d \in DOMAIN plan.edits :
             LET hooks == plan.edits[d].Hooks IN
             /\ plan.edits[d].Env # <<>>
             /\ ~HasPortSeparator(d) => hooks = <<>>
             /\ HasPortSeparator(d) =>
                  /\ Len(hooks) = 1
                  /\ hooks[1].HookName = "createRuntime"
                  /\ Len(hooks[1].Args) = 4
                  /\ hooks[1].Args[2] = "move-netdev"
                  /\ hooks[1].Args[3] = "--ib-dev"
                  /\ ~HasPortSeparator(hooks[1].Args[4])
                  /\ SubSeq(d, 1, Len(hooks[1].Args[4]) + 5)
                        = hooks[1].Args[4] \o <<"-", "p", "o", "r", "t">>
                  /\ \A a \in {Str_mlx5_0, Str_mlx5_1}, n \in 1..9 :
                        d = a \o <<"-", "p", "o", "r", "t">> \o <<DecDigits[n + 1]>>
                            => hooks[1].Args[4] = a

\* A call returned edits for "mlx5_1-port2", with a hook for mlx5_1, and for
\* "ib0", without hook.
C14_Witness ==
    /\ plan.pc = "returned"
    /\ plan.err = "nil"
    /\ DOMAIN plan.edits = {Str_mlx5_1 \o Str_port \o <<"2">>, Str_ib0}
    /\ plan.edits[Str_mlx5_1 \o Str_port \o <<"2">>].Hooks[1].Args[4] = Str_mlx5_1
    /\ plan.edits[Str_ib0].Hooks = <<>>

\* The name and the value of an environment entry "NAME=value".
EnvName(e) == SubSeq(e, 1, IndexOf(e, <<"=">>) - 1)

EnvValue(e) == SubSeq(e, IndexOf(e, <<"=">>) + 1, Len(e))

\* The number a string of decimal, or of upper-case hexadecimal, digits
\* denotes; a string that is not one denotes none of the values compared.
DigitValue(digits, c) ==
    IF \E k \in DOMAIN digits : digits[k] = c
    THEN (CHOOSE k \in DOMAIN digits : digits[k] = c) - 1
    ELSE 0 - 1

RECURSIVE NumberValue(_, _)
NumberValue(digits, s) ==
    IF s = <<>> THEN 0
    ELSE LET d == DigitValue(digits, s[Len(s)])
             r == NumberValue(digits, SubSeq(s, 1, Len(s) - 1))
         IN  IF d < 0 \/ r < 0 THEN 0 - 1 ELSE r * Len(digits) + d

\* A decimal numeral without sign and without leading zero.
IsDecimalOf(s, n) ==
    /\ s # <<>>
    /\ Len(s) > 1 => s[1] # "0"
    /\ NumberValue(DecDigits, s) = n

\* The names the environment of the device at position i has to hold, in
\* order.
ExpectedEnvNames(config, i, d) ==
    LET base == <<"I", "B", "_", "D", "E", "V", "I", "C", "E", "_">> \o <<DecDigits[i + 1]>>
    IN  <<base>>
        \o (IF HasPortSeparator(d)
            THEN <<base \o <<"_", "I", "B", "D", "E", "V">>,
                   base \o <<"_", "P", "O", "R", "T">>>>
            ELSE <<>>)
        \o (IF config.Pkey.set THEN <<base \o <<"_", "P", "K", "E", "Y">>>> ELSE <<>>)
        \o (IF config.TrafficClass.set
            THEN <<base \o <<"_", "T", "R", "A", "F", "F", "I", "C", "_", "C", "L", "A", "S", "S">>>>
            ELSE <<>>)
        \o (IF config.MTU.set THEN <<base \o <<"_", "M", "T", "U">>>> ELSE <<>>)

\* C15: in the edits ApplyConfig returns, the environment of the device at
\* position i is, in this order: IB_DEVICE_i with the device name; when the
\* name holds the port separator, IB_DEVICE_i_IBDEV and IB_DEVICE_i_PORT with
\* the two parts of the name; IB_DEVICE_i_PKEY, "0x" and four upper-case
\* hexadecimal digits, iff the partition key is set; IB_DEVICE_i_TRAFFIC_CLASS
\* in decimal iff the traffic class is set; IB_DEVICE_i_MTU in decimal iff the
\* MTU is set; and nothing else.
C15_EnvPerDevice ==
    (plan.pc = "returned" /\ plan.err = "nil") =>
        \A k \in DOMAIN plan.results :
          LET d == plan.results[k]
              c == plan.config
              env == plan.edits[d].Env
              names == ExpectedEnvNames(c, k - 1, d)
              at(j) == EnvValue(env[j])
              off == IF HasPortSeparator(d) THEN 3 ELSE 1
              offTC == off + (IF c.Pkey.set THEN 1 ELSE 0)
              offMTU == offTC + (IF c.TrafficClass.set THEN 1 ELSE 0)
          IN  /\ Len(env) = Len(names)
              /\ \A j \in DOMAIN env : EnvName(env[j]) = names[j]
              /\ at(1) = d
              /\ HasPortSeparator(d) =>
                    /\ at(2) \o <<"-", "p", "o", "r", "t">> \o at(3) = d
                    /\ ~HasPortSeparator(at(2))
              /\ c.Pkey.set =>
                    LET v == at(off + 1) IN
                    /\ Len(v) = 6
                    /\ SubSeq(v, 1, 2) = <<"0", "x">>
                    /\ NumberValue(HexDigits, SubSeq(v, 3, 6)) = c.Pkey.v
              /\ c.TrafficClass.set => IsDecimalOf(at(offTC + 1), c.TrafficClass.v)
              /\ c.MTU.set => IsDecimalOf(at(offMTU + 1), c.MTU.v)

\* A call returned, for "mlx5_1-port2" at position 0 with partition key
\* 0x8001, the variables of the adapter mlx5_1, of the port 2 and of the
\* partition key "0x8001"; a second device at position 1 has IB_DEVICE_1.
C15_Witness ==
    /\ plan.pc = "returned"
    /\ plan.err = "nil"
    /\ Len(plan.results) = 2
    /\ plan.results[1] = Str_mlx5_1 \o Str_port \o <<"2">>
    /\ plan.config.Pkey.set
    /\ plan.config.Pkey.v = 32769
    /\ LET env == plan.edits[plan.results[1]].Env IN
       /\ Len(env) >= 4
       /\ EnvValue(env[2]) = Str_mlx5_1
       /\ EnvValue(env[3]) = <<"2">>
       /\ EnvValue(env[4]) = <<"0", "x", "8", "0", "0", "1">>
    /\ EnvName(plan.edits[plan.results[2]].Env[1])
          = <<"I", "B", "_", "D", "E", "V", "I", "C", "E", "_", "1">>

(***************************************************************************)
(* Properties of the enumeration (SpecEnum)                                *)
(***************************************************************************)
\* The call went through steps 3 to 5 (neither early return was taken).
FullPass == enum.pc = "returned" /\ enum.err = "nil" /\ enum.ibDevices # <<>>

\* The (adapter, port) pairs the hardware query of the call reported.
ReportedPorts ==
    UNION {{<<enum.ibDevices[i].Name, enum.ibDevices[i].Ports[k].PortNum>> :
               k \in DOMAIN enum.ibDevices[i].Ports} : i \in DOMAIN enum.ibDevices}

\* The topology listing of the call has a record of the adapter.
HasTopologyRecord(name) ==
    \E i \in DOMAIN enum.sysfsDevices : enum.sysfsDevices[i].Name = name

\* C16: every port the hardware query reported yields exactly one entry of
\* the snapshot, and the snapshot has no other entry; the entries of an
\* adapter without topology record have kind PF, an empty PCI address, the
\* unknown NUMA node and no network interface.
C16_NoPortDropped ==
    FullPass =>
        /\ \A ap \in ReportedPorts :
              Cardinality({k \in DOMAIN devices :
                              /\ devices[k].IBDevName = ap[1]
                              /\ devices[k].PortNum = ap[2]}) = 1
        /\ Len(devices) = Cardinality(ReportedPorts)
        /\ \A k \in DOMAIN devices :
              ~HasTopologyRecord(devices[k].IBDevName) =>
                  /\ devices[k].Type = "PF"
                  /\ devices[k].PCIAddress = ""
                  /\ devices[k].NUMANode = 0 - 1
                  /\ devices[k].NetDevices = <<>>

\* The three ports of the two adapters were fused into three entries, one
\* adapter with and one without topology record.
C16_Witness ==
    /\ FullPass
    /\ Len(devices) = 3
    /\ HasTopologyRecord(Str_mlx5_1)
    /\ ~HasTopologyRecord(Str_mlx5_0)
    /\ devices[1].IBDevName = Str_mlx5_0
    /\ devices[1].Type = "PF"
    /\ devices[3].PortNum = 2

\* C17: no two entries of a snapshot have the same composite name.
C17_NamesUnique ==
    \A j, k \in DOMAIN devices :
        devices[j].DeviceName = devices[k].DeviceName => j = k

\* A snapshot of three entries: the port of one adapter, two ports of the
\* other.
C17_Witness ==
    /\ Len(devices) = 3
    /\ devices[1].DeviceName = Str_mlx5_0 \o Str_port \o <<"1">>
    /\ devices[2].DeviceName = Str_mlx5_1 \o Str_port \o <<"1">>
    /\ devices[3].DeviceName = Str_mlx5_1 \o Str_port \o <<"2">>

\* C18 as stated: the parent reference of an entry is set exactly when its
\* kind is VF.
C18_ParentIffVF ==
    \A k \in DOMAIN devices :
        devices[k].ParentDevice # <<>> <=> devices[k].Type = "VF"

\* The adapters of the topology whose PCI address is the given one.
AdaptersAt(pci) ==
    {a \in AdapterSet : ibclass[a].present /\ ibclass[a].PCIAddress # ""
                        /\ ibclass[a].PCIAddress = pci}

\* C18, amended: the parent reference of an entry is set only if its kind is
\* VF; the reference of a VF entry is the InfiniBand device at the PCI address
\* of the VF's physical function when the topology lists one, and is empty
\* when it lists none.
C18_ParentOnlyForResolvedVF ==
    \A k \in DOMAIN devices :
        LET e == devices[k] IN
        /\ e.ParentDevice # <<>> => e.Type = "VF"
        /\ e.Type = "VF" =>
              LET parents == AdaptersAt(ibclass[e.IBDevName].ParentPF) IN
              /\ parents = {} => e.ParentDevice = <<>>
              /\ parents # {} => e.ParentDevice \in parents

\* A snapshot holds a VF whose parent is the other adapter and a VF whose
\* physical function is outside the topology, with empty parent.
C18_Witness ==
    /\ \E k \in DOMAIN devices :
          /\ devices[k].Type = "VF"
          /\ devices[k].IBDevName = Str_mlx5_1
          /\ devices[k].ParentDevice = Str_mlx5_0
    /\ \E k \in DOMAIN devices :
          /\ devices[k].Type = "VF"
          /\ devices[k].ParentDevice = <<>>

\* C19: after an EnumerateDevices call returned, the snapshot holds exactly
\* the entries of the ports that call's hardware query reported, and
\* GetDeviceEntryByName finds the names of those ports and no other.
C19_SnapshotRebuilt ==
    enum.pc = "returned" =>
        /\ {<<devices[k].IBDevName, devices[k].PortNum>> : k \in DOMAIN devices}
              = ReportedPorts
        /\ \A a \in AdapterSet, n \in 1..MaxPorts :
              GetDeviceEntryByName(ComposeDeviceName(a, n)) <=> <<a, n>> \in ReportedPorts

\* The published devices of the call: those of the one slice of the pool of
\* the node.
Published == enum.resources[nodeName][1].Devices

\* C20: the resources of a call that reached the publisher hold one pool,
\* that of the node, of one slice, whose devices are those of the snapshot
\* entries, one per entry in snapshot order and under the entry's name; the
\* numaNode attribute is the entry's NUMA node, -1 included, and the
\* parentDevice attribute is present, with the entry's parent, exactly when
\* the parent reference is not empty.
C20_PublishedOneToOne ==
    FullPass =>
        /\ DOMAIN enum.resources = {nodeName}
        /\ Len(enum.resources[nodeName]) = 1
        /\ Len(Published) = Len(devices)
        /\ \A k \in DOMAIN devices :
              LET e == devices[k]
                  attrs == Published[k].Attributes
              IN  /\ Published[k].Name = e.DeviceName
                  /\ attrs["numaNode"] = e.NUMANode
                  /\ attrs["type"] = e.Type
                  /\ "parentDevice" \in DOMAIN attrs <=> e.ParentDevice # <<>>
                  /\ e.ParentDevice # <<>> => attrs["parentDevice"] = e.ParentDevice

\* A call published a PF of unknown NUMA node without parentDevice, and a VF
\* with its parent.
C20_Witness ==
    /\ FullPass
    /\ Len(Published) >= 2
    /\ \E k \in DOMAIN Published :
          /\ Published[k].Attributes["numaNode"] = 0 - 1
          /\ Published[k].Attributes["type"] = "PF"
          /\ "parentDevice" \notin DOMAIN Published[k].Attributes
    /\ \E k \in DOMAIN Published :
          /\ Published[k].Attributes["type"] = "VF"
          /\ "parentDevice" \in DOMAIN Published[k].Attributes
          /\ Published[k].Attributes["parentDevice"] = Str_mlx5_0

(***************************************************************************)
(* Failed writes of the VF count (SpecFleet)                               *)
(***************************************************************************)
\* C21: a failed write of sriov_numvfs is the last control-file event of its
\* ProvisionVFs call, which returns the error of that write; and when a call
\* of the fleet loop returned such an error, provisionVFs returns an error to
\* EnumerateDevices, which requested the provisioning.
C21_FailedWriteIsHardError ==
    /\ \A p \in PCIAddrs :
          \A i \in Writes(call[p].log) :
              ~call[p].log[i].ok =>
                  /\ i = Len(call[p].log)
                  /\ call[p].pc = "done"
                  /\ call[p].err = (IF call[p].log[i].kind = "reset"
                                    THEN "errReset" ELSE "errSet")
    /\ (\E i \in DOMAIN fleet.results : fleet.results[i] \in {"errReset", "errSet"}) =>
          /\ fleet.pc = "done"
          /\ fleet.err = "errProvision"
          /\ fleet.results[Len(fleet.results)] \in {"errReset", "errSet"}

\* The fleet loop ended with the error of a failed write of the desired count
\* on its second PF.
C21_Witness ==
    /\ fleet.pc = "done"
    /\ fleet.err = "errProvision"
    /\ Len(fleet.results) = 2
    /\ fleet.results[2] = "errSet"
    /\ fleet.writes >= 1

(***************************************************************************)
(* The kind of an entry (SpecEnum)                                         *)
(***************************************************************************)
\* C22 as stated: the kind of an entry whose adapter has a topology record is
\* PF exactly when the PCI device exposes sriov_totalvfs, and VF exactly when
\* it exposes the physfn link.
C22_KindMatchesCapabilities ==
    FullPass =>
        \A k \in DOMAIN devices :
            HasTopologyRecord(devices[k].IBDevName) =>
                /\ devices[k].Type = "PF" <=> ibclass[devices[k].IBDevName].IsPF
                /\ devices[k].Type = "VF" <=> ibclass[devices[k].IBDevName].IsVF

\* C22, amended: the kind of an entry whose adapter has a topology record is
\* VF exactly when the PCI device exposes the physfn link, and PF otherwise,
\* whether the device exposes sriov_totalvfs or neither of the two.
C22_KindVFIffPhysfn ==
    FullPass =>
        \A k \in DOMAIN devices :
            HasTopologyRecord(devices[k].IBDevName) =>
                /\ devices[k].Type = "VF" <=> ibclass[devices[k].IBDevName].IsVF
                /\ devices[k].Type = "PF" <=> ~ibclass[devices[k].IBDevName].IsVF
                /\ ibclass[devices[k].IBDevName].IsPF => devices[k].Type = "PF"

\* A snapshot with an entry of kind PF of a device exposing sriov_totalvfs and
\* entries of kind VF of a device exposing physfn.
C22_Witness ==
    /\ FullPass
    /\ Len(devices) = 3
    /\ HasTopologyRecord(Str_mlx5_0)
    /\ HasTopologyRecord(Str_mlx5_1)
    /\ ibclass[Str_mlx5_0].IsPF
    /\ devices[1].Type = "PF"
    /\ ibclass[Str_mlx5_1].IsVF
    /\ devices[2].Type = "VF"
    /\ devices[3].Type = "VF"

(***************************************************************************)
(* Parallel provisioning of different PFs (SpecParallel)                   *)
(***************************************************************************)
\* The count a call leaves in its control file after the events of its log:
\* the value of the last event when it was accepted, the count before it when
\* it was not, the count at the call when there is no event.
CountAfter(c, n) ==
    IF n = 0 THEN c.entry
    ELSE IF c.log[n].ok THEN c.log[n].value ELSE c.log[n].before

\* C23: with ProvisionVFs calls running in parallel on distinct PFs, the
\* control file of a PF holds, at every moment of its call, what the call's
\* own writes left in it (each write finds the count its own previous event
\* left, the first one the count the call started with), and the call ends
\* with the result of a call running alone: success with the pool at the
\* desired count and, after a write, the VFs seen; a request above capacity
\* rejected without write, with the capacity error or, when sriov_totalvfs
\* could not be read, the read error.
C23_ParallelCallsIndependent ==
    \A p \in PCIAddrs :
        LET c == call[p] IN
        c.caller = "parallel" =>
            /\ \A i \in DOMAIN c.log : c.log[i].before = CountAfter(c, i - 1)
            /\ numvfs[p] = CountAfter(c, Len(c.log))
            /\ (c.pc = "done" /\ c.err = "nil") =>
                  /\ numvfs[p] = c.desired
                  /\ c.log # <<>> => (c.log[Len(c.log)].kind = "set" /\ c.seen >= c.desired)
            /\ (c.pc = "done" /\ isPF[p] /\ c.desired > totalvfs[p]) =>
                  (c.err \in {"errExceeds", "errGetTotal"} /\ c.log = <<>>)

\* Both calls are done with success, one after a write of 1, the other after
\* a reset and a write of 2.
C23_Witness ==
    \E p, q \in PCIAddrs :
        /\ p # q
        /\ call[p].pc = "done" /\ call[q].pc = "done"
        /\ call[p].caller = "parallel" /\ call[q].caller = "parallel"
        /\ call[p].err = "nil" /\ call[q].err = "nil"
        /\ call[p].desired = 1 /\ call[q].desired = 2
        /\ Len(call[p].log) = 1 /\ Len(call[q].log) = 3

(***************************************************************************)
(* Properties of EffectiveSpeed (SpecSpeed)                                *)
(***************************************************************************)
\* The lanes of a width code and the base rate of a speed code.
LanesOf == [w \in {1, 2, 4, 8} |-> IF w = 1 THEN 1 ELSE IF w = 2 THEN 4
                                   ELSE IF w = 4 THEN 8 ELSE 12]

RateOf == (1 :> 2) @@ (2 :> 5) @@ (4 :> 10) @@ (8 :> 10) @@ (16 :> 14)
          @@ (32 :> 25) @@ (64 :> 50) @@ (128 :> 100) @@ (256 :> 200)

\* C24: the effective speed of a port is "<N>Gb/s", N in decimal; for the
\* width codes 1, 2, 4, 8 (lanes 1, 4, 8, 12) N is the base rate of the speed
\* code times the lanes when the speed code is one of 1, 2, 4, 8, 16, 32, 64,
\* 128, 256 (rates 2, 5, 10, 10, 14, 25, 50, 100, 200), and the speed code
\* itself times the lanes when it is not.
C24_EffectiveSpeed ==
    portInfo.pc = "formatted" =>
        LET s == portInfo.LinkSpeed
            n == Len(s) - 4
        IN  /\ n >= 1
            /\ SubSeq(s, n + 1, Len(s)) = <<"G", "b", "/", "s">>
            /\ portInfo.ActiveWidth \in DOMAIN LanesOf =>
                  IsDecimalOf(SubSeq(s, 1, n),
                              (IF portInfo.ActiveSpeed \in DOMAIN RateOf
                               THEN RateOf[portInfo.ActiveSpeed] ELSE portInfo.ActiveSpeed)
                              * LanesOf[portInfo.ActiveWidth])

\* The effective speed of a 4x EDR port (width code 2, speed code 32) is
\* "100Gb/s".
C24_Witness ==
    /\ portInfo.pc = "formatted"
    /\ portInfo.ActiveWidth = 2
    /\ portInfo.ActiveSpeed = 32
    /\ portInfo.LinkSpeed = <<"1", "0", "0", "G", "b", "/", "s">>

(***************************************************************************)
(* Properties of the IbConfig validation (SpecPlan)                        *)
(***************************************************************************)
\* The set fields of a configuration that are out of range.
FieldsOutOfRange(c) ==
    {f \in {"Pkey", "TrafficClass", "MTU"} :
        /\ c[f].set
        /\ CASE f = "Pkey" -> c[f].v \notin 1..65535
             [] f = "TrafficClass" -> c[f].v \notin 0..255
             [] f = "MTU" -> c[f].v \notin {256, 512, 1024, 2048, 4096}}

\* C25: the validation of an IbConfig accepts it exactly when every set field
\* is in range: once the validation of a call has run, the call holds the
\* validation error iff a set partition key is outside 0x0001..0xFFFF or a set
\* MTU is not one of 256, 512, 1024, 2048, 4096; an unset field and a set
\* traffic class never make it fail.
C25_ValidateIffInRange ==
    (plan.pc \in {"loop", "returned"} /\ plan.config.kind = "IbConfig") =>
        /\ plan.err = "errValidate" <=> FieldsOutOfRange(plan.config) # {}
        /\ plan.err = "errValidate" => plan.pc = "returned"
        /\ FieldsOutOfRange(plan.config) \subseteq {"Pkey", "MTU"}
        /\ IbConfigValidate([plan.config EXCEPT !.Pkey = Unset, !.MTU = Unset])

\* A configuration with the full-membership partition key, the highest
\* traffic class and the MTU 512 passed the validation.
C25_Witness ==
    /\ plan.pc = "loop"
    /\ plan.config.Pkey = [set |-> TRUE, v |-> 65535]
    /\ plan.config.TrafficClass = [set |-> TRUE, v |-> 255]
    /\ plan.config.MTU = [set |-> TRUE, v |-> 512]
    /\ plan.err = "none"

(***************************************************************************)
(* Properties of ProvisionVFs over sequences of calls (SpecDirect)         *)
(***************************************************************************)
\* C26: whenever ProvisionVFs returns success for a desired count D > 0, at
\* least D VF entries exist under the PF at that moment, also when the call
\* follows a call that timed out.
C26_SuccessMeansVFsExist ==
    \A p \in PCIAddrs :
      (/\ call[p].pc = "done"
       /\ call[p].err = "nil"
       /\ call[p].desired > 0
       /\ call[p].round = 2
       /\ call[p].first = "errTimeout") => virtfn[p] >= call[p].desired

\* C27: every value ProvisionVFs writes to the sriov_numvfs file of a PF lies
\* in 0..capacity of that PF, whatever the desired count, a negative one
\* included.
C27_WrittenValuesInRange ==
    \A p \in PCIAddrs :
      \A k \in Writes(call[p].log) : call[p].log[k].value \in 0..totalvfs[p]

(***************************************************************************)
(* The device name between fusion and planner (SpecPlan)                   *)
(***************************************************************************)
\* Adapter names: the two adapters of the host, and an adapter whose name
\* holds the text "-port".
RoundTripAdapters == {Str_mlx5_0, Str_mlx5_1, Str_mlx5_0 \o Str_port \o <<"1">>}

\* C28: for every adapter name A and port number N, the planner parses the
\* device name fusion composes from A and N into the adapter A and the port
\* N: the hook's adapter argument and the IBDEV variable are A, the PORT
\* variable is N.
C28_NameRoundTrip ==
    (plan.pc = "returned" /\ plan.err = "nil") =>
        \A d \in DOMAIN plan.edits, A \in RoundTripAdapters, N \in 1..MaxPorts :
          d = ComposeDeviceName(A, N) =>
            /\ Len(plan.edits[d].Hooks) = 1
            /\ plan.edits[d].Hooks[1].Args[4] = A
            /\ EnvValue(plan.edits[d].Env[2]) = A
            /\ EnvValue(plan.edits[d].Env[3]) = SprintfD(N)

(***************************************************************************)
(* The argument lists of the move-netdev helper (SpecCli)                  *)
(***************************************************************************)
\* C29: every argument list generated for the move-netdev helper, by the
\* planner's hook and by GenerateMoveNetdevCommand, is accepted by the
\* plugin binary run with the node name in its environment: it names the
\* move-netdev subcommand, every flag in it is a flag of the subcommand, and
\* the required adapter flag is supplied.
C29_GeneratedArgsAccepted ==
    (cli.pc = "exited" /\ cli.nodeNameEnv) => cli.err = "nil"

(***************************************************************************)
(* The helper on an adapter that cannot be resolved (SpecHook)             *)
(***************************************************************************)
\* C30: MoveNetdevHookHelper returns an error for an adapter that does not
\* exist on the host, and returns success only after it moved at least one
\* network interface of the adapter.
C30_UnresolvedAdapterFails ==
    (hook.pc = "done" /\ hook.err = "nil") =>
        /\ hook.ibDev \in RdmaDevs
        /\ \E i \in DOMAIN hook.ops : hook.ops[i].op = "move" /\ hook.ops[i].ok

====
